---- MODULE Spec2Model ----
(***************************************************************************)
(* Event derivation of mpris-rs: the fixed-player iterator PlayerEvents    *)
(* and the auto-reattaching PlayerWatcher of src/src/event.rs, driven by a *)
(* player that changes its properties, edits its track list, seeks, quits  *)
(* and (for the watcher) starts again.                                     *)
(*                                                                         *)
(* Option<T> is a sequence of length 0 (None) or 1 (Some).  Enum values    *)
(* with a payload are tuples whose first element is the variant's name.    *)
(***************************************************************************)
EXTENDS Integers, Sequences, FiniteSets, TLC

\* ------------------------------------------------------------------ bounds
\* Number of steps the player side takes in one run: notifications sent,
\* quits and starts.
MaxSteps == 3
\* Number of notifications among them (a quit's PlayerQuit aside).
MaxNotes == 2
\* Longest track list the player holds.
MaxTracks == 2
\* ids a mirror holds when the notification arms are run on their own
MaxLen == 3
\* tokens of a candidate track id, and tokens appended to a prefix of NO_TRACK
MaxPath == 3
\* Notifications in a batch when one cycle is run on its own
MaxBatch == 3
\* Keys a raw metadata map holds at most
MaxKeys == 3
\* Width of the integers: i64 and u64 are modelled with this many bits, so
\* that every value of both types is tried.
Bits == 5

\* Volume and playback rate are floats; they are counted in units of half a
\* machine epsilon, so that f64::EPSILON is
EPSILON == 2

\* ------------------------------------------------------------------ values
None == <<>>
Some(x) == <<x>>
IsSome(o) == o # <<>>
Unwrap(o) == o[1]

PlaybackStatuses == {"Playing", "Paused", "Stopped"}
LoopStatuses == {"None", "Track", "Playlist"}
\* Volumes a half, one and one and a half epsilon apart; rates one epsilon apart.
Volumes == {0, 1, 2, 3}
Rates == {0, 2}
\* Seek offsets in microseconds.
Positions == {1, 2}
TrackIds == {"A", "B"}
\* The track ids a mirror can hold: those of the player, and one more.
MirrorIds == TrackIds \cup {"C"}
Titles == {"t1", "t2"}
Urls == {"u1", "u2"}
Artists == {"a1", "a2"}

\* The fields of Metadata the event derivation reads.
Metadatas ==
    [track_id : {None} \cup {Some(i) : i \in TrackIds},
     url : Urls, title : Titles, artists : Artists]

\* Metadata of a track-list entry, as carried by the track-list notifications.
TrackMeta(idopt, title) ==
    [track_id |-> idopt, url |-> "u1", title |-> title, artists |-> "a1"]

Progresses ==
    [playback_status : PlaybackStatuses, loop_status : LoopStatuses,
     shuffle : BOOLEAN, current_volume : Volumes, playback_rate : Rates,
     metadata : Metadatas]

\* ------------------------------------------------------------------ Event
PlayerShutDown == <<"PlayerShutDown">>
PlayerStart == <<"PlayerStart">>
Paused == <<"Paused">>
Playing == <<"Playing">>
Stopped == <<"Stopped">>
LoopingChanged(l) == <<"LoopingChanged", l>>
ShuffleToggled(b) == <<"ShuffleToggled", b>>
VolumeChanged(v) == <<"VolumeChanged", v>>
PlaybackRateChanged(r) == <<"PlaybackRateChanged", r>>
TrackChanged(m) == <<"TrackChanged", m>>
Seeked(p) == <<"Seeked", p>>
TrackAdded(id) == <<"TrackAdded", id>>
TrackRemoved(id) == <<"TrackRemoved", id>>
TrackMetadataChanged(old_id, new_id) == <<"TrackMetadataChanged", old_id, new_id>>
TrackListReplaced == <<"TrackListReplaced">>

Kind(e) == e[1]

\* impl From<PlaybackStatus> for Event
EventFromStatus(status) ==
    CASE status = "Playing" -> Playing
      [] status = "Paused" -> Paused
      [] status = "Stopped" -> Stopped

\* EventError
DBusError == <<"DBusError">>
NoPlayer == <<"NoPlayer">>

\* Item of the iterators: Option<Result<Event, EventError>>.
RetOk(e) == <<"Ok", e>>
RetErr(err) == <<"Err", err>>
RetNone == <<"None">>

\* ------------------------------------------------------- MprisEvent (notifications)
NPlayerQuit == <<"PlayerQuit">>
NPlayerPropertiesChanged == <<"PlayerPropertiesChanged">>
NSeeked(p) == <<"Seeked", p>>
NTrackListPropertiesChanged == <<"TrackListPropertiesChanged">>
NTrackListReplaced(ids) == <<"TrackListReplaced", ids>>
NTrackAdded(after_id, metadata) == <<"TrackAdded", after_id, metadata>>
NTrackRemoved(id) == <<"TrackRemoved", id>>
NTrackMetadataChanged(old_id, metadata) == <<"TrackMetadataChanged", old_id, metadata>>

\* The "no track" sentinel, used as after_id for "at the front".
NoTrack == "NoTrack"

\* ------------------------------------------------------- TrackList (the mirror)
\* A TrackList is the ordering plus the metadata learned for its entries:
\* [ids : Seq(TrackIds), metadata_cache : [TrackIds -> Option<Metadata>]].
EmptyCache == [i \in MirrorIds |-> None]

TrackListFrom(ids) == [ids |-> ids, metadata_cache |-> EmptyCache]

IndexOf(ids, id) ==
    IF \E i \in 1..Len(ids) : ids[i] = id
    THEN CHOOSE i \in 1..Len(ids) : ids[i] = id /\ \A j \in 1..(i - 1) : ids[j] # id
    ELSE 0

Contains(ids, id) == IndexOf(ids, id) # 0

InsertAt(ids, i, id) == SubSeq(ids, 1, i) \o <<id>> \o SubSeq(ids, i + 1, Len(ids))

RemoveAt(ids, i) == SubSeq(ids, 1, i - 1) \o SubSeq(ids, i + 1, Len(ids))

\* TrackList::replace: ordering and cache are replaced wholesale.
TrackList_replace(list, other) ==
    [ids |-> other.ids, metadata_cache |-> other.metadata_cache]

\* TrackList::insert: no-op without a track id; the new id goes right after
\* after_id, or to the front when after_id is "no track" or unknown.
TrackList_insert(list, after_id, metadata) ==
    IF ~IsSome(metadata.track_id) THEN list
    ELSE LET new_id == Unwrap(metadata.track_id)
         IN [ids |-> InsertAt(list.ids, IndexOf(list.ids, after_id), new_id),
             metadata_cache |-> [list.metadata_cache EXCEPT ![new_id] = Some(metadata)]]

\* TrackList::remove: first occurrence and its metadata; no-op if absent.
TrackList_remove(list, id) ==
    IF ~Contains(list.ids, id) THEN list
    ELSE [ids |-> RemoveAt(list.ids, IndexOf(list.ids, id)),
          metadata_cache |-> [list.metadata_cache EXCEPT ![id] = None]]

\* TrackList::replace_track_metadata: [list, new_id : Option<TrackID>].
TrackList_replace_track_metadata(list, old_id, metadata) ==
    IF ~Contains(list.ids, old_id) THEN [list |-> list, new_id |-> None]
    ELSE LET new_id == IF IsSome(metadata.track_id)
                       THEN Unwrap(metadata.track_id) ELSE old_id
             cache1 == [list.metadata_cache EXCEPT ![old_id] = None]
         IN [list |-> [ids |-> [list.ids EXCEPT ![IndexOf(list.ids, old_id)] = new_id],
                       metadata_cache |-> [cache1 EXCEPT ![new_id] = Some(metadata)]],
             new_id |-> Some(new_id)]

\* ------------------------------------------------------- results of the queries
\* Progress::from_player(player): Result<Progress, DBusError>.
QueryOk(v) == <<"Ok", v>>
QueryErr == <<"Err">>
IsOk(r) == r[1] = "Ok"
Value(r) == r[2]

\* ------------------------------------------------------- the drain loop
\* Locals of read_events while it walks the batch.  flow is "continue" while
\* the for loop runs, "quit" after the early return of the PlayerQuit arm and
\* "error" after a `?` returned the error of a failed query.  queries counts
\* the calls of Progress::from_player.
Locals(self) ==
    [buffer |-> self.buffer, track_list |-> self.track_list,
     new_progress |-> None, reload_track_list |-> FALSE, flow |-> "continue",
     queries |-> 0]

Push(acc, e) == [acc EXCEPT !.buffer = Append(@, e)]

\* The PlayerQuit arm pushing its event and going on with the batch.
ArmPlayerQuit_goes_on(acc) == Push(acc, PlayerShutDown)

ArmPlayerQuit(acc) == [Push(acc, PlayerShutDown) EXCEPT !.flow = "quit"]

\* The PlayerPropertiesChanged arm asking for a Progress at every
\* notification.
ArmPropertiesChanged_every_time(acc, from_player) ==
    IF IsOk(from_player)
    THEN [acc EXCEPT !.new_progress = Some(Value(from_player)), !.queries = @ + 1]
    ELSE [acc EXCEPT !.flow = "error", !.queries = @ + 1]

ArmPropertiesChanged(acc, from_player) ==
    IF IsSome(acc.new_progress) THEN acc
    ELSE IF IsOk(from_player)
         THEN [acc EXCEPT !.new_progress = Some(Value(from_player)), !.queries = @ + 1]
         ELSE [acc EXCEPT !.flow = "error", !.queries = @ + 1]

ArmSeeked(acc, position_in_us) == Push(acc, Seeked(position_in_us))

ArmTrackListPropertiesChanged(acc) == [acc EXCEPT !.reload_track_list = TRUE]

\* The TrackListReplaced arm pushing its event without touching the mirror.
ArmTrackListReplaced_event_only(acc, ids) == Push(acc, TrackListReplaced)

ArmTrackListReplaced(acc, ids) ==
    Push(IF IsSome(acc.track_list)
         THEN [acc EXCEPT !.track_list =
                   Some(TrackList_replace(Unwrap(acc.track_list), TrackListFrom(ids)))]
         ELSE acc,
         TrackListReplaced)

\* The TrackAdded arm inserting at the front whatever after_id says.
ArmTrackAdded_at_front(acc, after_id, metadata) ==
    IF IsSome(metadata.track_id)
    THEN Push(IF IsSome(acc.track_list)
              THEN [acc EXCEPT !.track_list =
                        Some(TrackList_insert(Unwrap(acc.track_list), NoTrack, metadata))]
              ELSE acc,
              TrackAdded(Unwrap(metadata.track_id)))
    ELSE acc

\* The TrackAdded arm pushing its event only when there is a mirror to edit.
ArmTrackAdded_needs_mirror(acc, after_id, metadata) ==
    IF IsSome(metadata.track_id) /\ IsSome(acc.track_list)
    THEN Push([acc EXCEPT !.track_list =
                   Some(TrackList_insert(Unwrap(acc.track_list), after_id, metadata))],
              TrackAdded(Unwrap(metadata.track_id)))
    ELSE acc

ArmTrackAdded(acc, after_id, metadata) ==
    IF IsSome(metadata.track_id)
    THEN Push(IF IsSome(acc.track_list)
              THEN [acc EXCEPT !.track_list =
                        Some(TrackList_insert(Unwrap(acc.track_list), after_id, metadata))]
              ELSE acc,
              TrackAdded(Unwrap(metadata.track_id)))
    ELSE acc

\* The TrackRemoved arm pushing its event without touching the mirror.
ArmTrackRemoved_event_only(acc, id) == Push(acc, TrackRemoved(id))

ArmTrackRemoved(acc, id) ==
    Push(IF IsSome(acc.track_list)
         THEN [acc EXCEPT !.track_list = Some(TrackList_remove(Unwrap(acc.track_list), id))]
         ELSE acc,
         TrackRemoved(id))

\* The TrackMetadataChanged arm pushing its event and dropping the edit.
ArmTrackMetadataChanged_event_only(acc, old_id, metadata) ==
    IF IsSome(acc.track_list)
    THEN LET r == TrackList_replace_track_metadata(Unwrap(acc.track_list), old_id, metadata)
         IN IF IsSome(r.new_id)
            THEN Push(acc, TrackMetadataChanged(old_id, Unwrap(r.new_id)))
            ELSE acc
    ELSE acc

\* The TrackMetadataChanged arm pushing its event whether or not the mirror
\* held old_id.
ArmTrackMetadataChanged_always(acc, old_id, metadata) ==
    LET id == IF IsSome(metadata.track_id) THEN Unwrap(metadata.track_id) ELSE old_id
    IN IF IsSome(acc.track_list)
       THEN LET r == TrackList_replace_track_metadata(Unwrap(acc.track_list), old_id,
                                                      metadata)
            IN Push([acc EXCEPT !.track_list = Some(r.list)],
                    TrackMetadataChanged(old_id, id))
       ELSE Push(acc, TrackMetadataChanged(old_id, id))

ArmTrackMetadataChanged(acc, old_id, metadata) ==
    IF IsSome(acc.track_list)
    THEN LET r == TrackList_replace_track_metadata(Unwrap(acc.track_list), old_id, metadata)
         IN IF IsSome(r.new_id)
            THEN Push([acc EXCEPT !.track_list = Some(r.list)],
                      TrackMetadataChanged(old_id, Unwrap(r.new_id)))
            ELSE [acc EXCEPT !.track_list = Some(r.list)]
    ELSE acc

\* The match on one MprisEvent (the same arms in both iterators).
MatchEvent(acc, event, from_player) ==
    CASE Kind(event) = "PlayerQuit" -> ArmPlayerQuit(acc)
      [] Kind(event) = "PlayerPropertiesChanged" -> ArmPropertiesChanged(acc, from_player)
      [] Kind(event) = "Seeked" -> ArmSeeked(acc, event[2])
      [] Kind(event) = "TrackListPropertiesChanged" -> ArmTrackListPropertiesChanged(acc)
      [] Kind(event) = "TrackListReplaced" -> ArmTrackListReplaced(acc, event[2])
      [] Kind(event) = "TrackAdded" -> ArmTrackAdded(acc, event[2], event[3])
      [] Kind(event) = "TrackRemoved" -> ArmTrackRemoved(acc, event[2])
      [] Kind(event) = "TrackMetadataChanged" -> ArmTrackMetadataChanged(acc, event[2], event[3])

\* for event in pending_events(): stops at the first return.
RECURSIVE ForEachEvent(_, _, _)
ForEachEvent(acc, events, from_player) ==
    IF events = <<>> \/ acc.flow # "continue" THEN acc
    ELSE ForEachEvent(MatchEvent(acc, Head(events), from_player), Tail(events), from_player)

Abs(x) == IF x < 0 THEN -x ELSE x

\* is_different_float with a strict comparison.
is_different_float_strict(a, b) == Abs(a - b) > EPSILON

is_different_float(a, b) == Abs(a - b) >= EPSILON

\* The reconciliation pushing TrackListReplaced after every answered query,
\* whether or not it brought a list.
ReloadTrackList_always_announces(buffer, track_list, reload_track_list, get_track_list) ==
    IF reload_track_list /\ IsSome(track_list)
    THEN IF ~IsOk(get_track_list)
         THEN [buffer |-> buffer, track_list |-> track_list, result |-> RetErr(DBusError),
               queries |-> 1]
         ELSE [buffer |-> Append(buffer, TrackListReplaced),
               track_list |-> IF IsSome(Value(get_track_list))
                              THEN Some(TrackList_replace(Unwrap(track_list),
                                                          Unwrap(Value(get_track_list))))
                              ELSE track_list,
               result |-> <<"Ok">>, queries |-> 1]
    ELSE [buffer |-> buffer, track_list |-> track_list, result |-> <<"Ok">>, queries |-> 0]

\* The reconciliation asking for the track list without looking for a mirror
\* first, and installing what it gets.
ReloadTrackList_without_mirror_test(buffer, track_list, reload_track_list, get_track_list) ==
    IF reload_track_list
    THEN IF ~IsOk(get_track_list)
         THEN [buffer |-> buffer, track_list |-> track_list, result |-> RetErr(DBusError),
               queries |-> 1]
         ELSE IF IsSome(Value(get_track_list))
              THEN [buffer |-> Append(buffer, TrackListReplaced),
                    track_list |-> Value(get_track_list),
                    result |-> <<"Ok">>, queries |-> 1]
              ELSE [buffer |-> buffer, track_list |-> track_list, result |-> <<"Ok">>,
                    queries |-> 1]
    ELSE [buffer |-> buffer, track_list |-> track_list, result |-> <<"Ok">>, queries |-> 0]

\* The reconciliation at the end of read_events (the same in both iterators):
\* [buffer, track_list, result, queries], queries counting the calls of
\* checked_get_track_list.
ReloadTrackList(buffer, track_list, reload_track_list, get_track_list) ==
    IF reload_track_list /\ IsSome(track_list)
    THEN IF ~IsOk(get_track_list)
         THEN [buffer |-> buffer, track_list |-> track_list, result |-> RetErr(DBusError),
               queries |-> 1]
         ELSE IF IsSome(Value(get_track_list))
              THEN [buffer |-> Append(buffer, TrackListReplaced),
                    track_list |-> Some(TrackList_replace(Unwrap(track_list),
                                                          Unwrap(Value(get_track_list)))),
                    result |-> <<"Ok">>, queries |-> 1]
              ELSE [buffer |-> buffer, track_list |-> track_list, result |-> <<"Ok">>,
                    queries |-> 1]
    ELSE [buffer |-> buffer, track_list |-> track_list, result |-> <<"Ok">>, queries |-> 0]

\* ------------------------------------------------------- PlayerEvents
\* self is [buffer, last_progress, track_list]; last_progress is Some(progress)
\* throughout (the field is a plain Progress).  The detect_* functions return
\* the buffer after their push.
\* detect_playback_status_events without its comparison: the status event is
\* pushed for every fetched Progress.
PlayerEvents_detect_playback_status_always(self, new_progress) ==
    Append(self.buffer, EventFromStatus(new_progress.playback_status))

PlayerEvents_detect_playback_status_events(self, new_progress) ==
    IF Unwrap(self.last_progress).playback_status = new_progress.playback_status
    THEN self.buffer
    ELSE Append(self.buffer, EventFromStatus(new_progress.playback_status))

PlayerEvents_detect_loop_status_events(self, new_progress) ==
    IF Unwrap(self.last_progress).loop_status # new_progress.loop_status
    THEN Append(self.buffer, LoopingChanged(new_progress.loop_status))
    ELSE self.buffer

\* detect_shuffle_events returning false whatever it found.
PlayerEvents_detect_shuffle_no_reload(self, new_progress) ==
    IF Unwrap(self.last_progress).shuffle # new_progress.shuffle
    THEN [buffer |-> Append(self.buffer, ShuffleToggled(new_progress.shuffle)), changed |-> FALSE]
    ELSE [buffer |-> self.buffer, changed |-> FALSE]

\* [buffer, changed]
PlayerEvents_detect_shuffle_events(self, new_progress) ==
    IF Unwrap(self.last_progress).shuffle # new_progress.shuffle
    THEN [buffer |-> Append(self.buffer, ShuffleToggled(new_progress.shuffle)), changed |-> TRUE]
    ELSE [buffer |-> self.buffer, changed |-> FALSE]

PlayerEvents_detect_volume_events(self, new_progress) ==
    IF is_different_float(Unwrap(self.last_progress).current_volume, new_progress.current_volume)
    THEN Append(self.buffer, VolumeChanged(new_progress.current_volume))
    ELSE self.buffer

PlayerEvents_detect_playback_rate_events(self, new_progress) ==
    IF is_different_float(Unwrap(self.last_progress).playback_rate, new_progress.playback_rate)
    THEN Append(self.buffer, PlaybackRateChanged(new_progress.playback_rate))
    ELSE self.buffer

\* detect_metadata_events comparing track id, url and title only.
PlayerEvents_detect_metadata_without_artists(self, new_progress) ==
    LET new_metadata == new_progress.metadata
        old_metadata == Unwrap(self.last_progress).metadata
    IN IF \/ old_metadata.track_id # new_metadata.track_id
          \/ old_metadata.url # new_metadata.url
          \/ old_metadata.title # new_metadata.title
       THEN Append(self.buffer, TrackChanged(new_metadata))
       ELSE self.buffer

PlayerEvents_detect_metadata_events(self, new_progress) ==
    LET new_metadata == new_progress.metadata
        old_metadata == Unwrap(self.last_progress).metadata
    IN IF \/ old_metadata.track_id # new_metadata.track_id
          \/ old_metadata.url # new_metadata.url
          \/ old_metadata.title # new_metadata.title
          \/ old_metadata.artists # new_metadata.artists
       THEN Append(self.buffer, TrackChanged(new_metadata))
       ELSE self.buffer

\* The diff block with detect_metadata_events called first instead of last.
PlayerEvents_diff_metadata_first(self, progress) ==
    LET s1 == [self EXCEPT !.buffer = PlayerEvents_detect_metadata_events(self, progress)]
        s2 == [s1 EXCEPT !.buffer = PlayerEvents_detect_playback_status_events(s1, progress)]
        s3 == [s2 EXCEPT !.buffer = PlayerEvents_detect_loop_status_events(s2, progress)]
        sh == PlayerEvents_detect_shuffle_events(s3, progress)
        s4 == [s3 EXCEPT !.buffer = sh.buffer]
        s5 == [s4 EXCEPT !.buffer = PlayerEvents_detect_volume_events(s4, progress)]
        s6 == [s5 EXCEPT !.buffer = PlayerEvents_detect_playback_rate_events(s5, progress)]
    IN [self |-> [s6 EXCEPT !.last_progress = Some(progress)], reload |-> sh.changed]

\* The block replacing last_progress only when a detect_* function pushed an
\* event.
PlayerEvents_diff_keeps_unchanged(self, progress) ==
    LET s1 == [self EXCEPT !.buffer = PlayerEvents_detect_playback_status_events(self, progress)]
        s2 == [s1 EXCEPT !.buffer = PlayerEvents_detect_loop_status_events(s1, progress)]
        sh == PlayerEvents_detect_shuffle_events(s2, progress)
        s3 == [s2 EXCEPT !.buffer = sh.buffer]
        s4 == [s3 EXCEPT !.buffer = PlayerEvents_detect_volume_events(s3, progress)]
        s5 == [s4 EXCEPT !.buffer = PlayerEvents_detect_playback_rate_events(s4, progress)]
        s6 == [s5 EXCEPT !.buffer = PlayerEvents_detect_metadata_events(s5, progress)]
    IN [self |-> IF s6.buffer = self.buffer THEN s6
                 ELSE [s6 EXCEPT !.last_progress = Some(progress)],
        reload |-> sh.changed]

\* The `if let Some(progress) = new_progress` block: [self, reload].
PlayerEvents_diff(self, progress) ==
    LET s1 == [self EXCEPT !.buffer = PlayerEvents_detect_playback_status_events(self, progress)]
        s2 == [s1 EXCEPT !.buffer = PlayerEvents_detect_loop_status_events(s1, progress)]
        sh == PlayerEvents_detect_shuffle_events(s2, progress)
        s3 == [s2 EXCEPT !.buffer = sh.buffer]
        s4 == [s3 EXCEPT !.buffer = PlayerEvents_detect_volume_events(s3, progress)]
        s5 == [s4 EXCEPT !.buffer = PlayerEvents_detect_playback_rate_events(s4, progress)]
        s6 == [s5 EXCEPT !.buffer = PlayerEvents_detect_metadata_events(s5, progress)]
    IN [self |-> [s6 EXCEPT !.last_progress = Some(progress)], reload |-> sh.changed]

\* read_events undoing the edits of the batch when a query fails.
PlayerEvents_read_events_rollback(self, events, from_player, get_track_list) ==
    LET acc == ForEachEvent(Locals(self), events, from_player)
        s0 == [self EXCEPT !.buffer = acc.buffer, !.track_list = acc.track_list]
    IN IF acc.flow = "quit"
       THEN [self |-> s0, result |-> <<"Ok">>, quit |-> TRUE, fetched |-> acc.new_progress,
             progress_queries |-> acc.queries, track_list_queries |-> 0]
       ELSE IF acc.flow = "error"
       THEN [self |-> self, result |-> RetErr(DBusError), quit |-> FALSE, fetched |-> None,
             progress_queries |-> acc.queries, track_list_queries |-> 0]
       ELSE LET d == IF IsSome(acc.new_progress)
                     THEN PlayerEvents_diff(s0, Unwrap(acc.new_progress))
                     ELSE [self |-> s0, reload |-> FALSE]
                r == ReloadTrackList(d.self.buffer, d.self.track_list,
                                     acc.reload_track_list \/ d.reload, get_track_list)
            IN [self |-> [d.self EXCEPT !.buffer = r.buffer, !.track_list = r.track_list],
                result |-> r.result, quit |-> FALSE, fetched |-> acc.new_progress,
                progress_queries |-> acc.queries, track_list_queries |-> r.queries]

\* PlayerEvents::read_events on the drained batch `events`, with the answers
\* the player gives to the two queries: [self, result, quit, fetched].
PlayerEvents_read_events(self, events, from_player, get_track_list) ==
    LET acc == ForEachEvent(Locals(self), events, from_player)
        s0 == [self EXCEPT !.buffer = acc.buffer, !.track_list = acc.track_list]
    IN IF acc.flow = "quit"
       THEN [self |-> s0, result |-> <<"Ok">>, quit |-> TRUE, fetched |-> acc.new_progress,
             progress_queries |-> acc.queries, track_list_queries |-> 0]
       ELSE IF acc.flow = "error"
       THEN [self |-> s0, result |-> RetErr(DBusError), quit |-> FALSE, fetched |-> None,
             progress_queries |-> acc.queries, track_list_queries |-> 0]
       ELSE LET d == IF IsSome(acc.new_progress)
                     THEN PlayerEvents_diff(s0, Unwrap(acc.new_progress))
                     ELSE [self |-> s0, reload |-> FALSE]
                r == ReloadTrackList(d.self.buffer, d.self.track_list,
                                     acc.reload_track_list \/ d.reload, get_track_list)
            IN [self |-> [d.self EXCEPT !.buffer = r.buffer, !.track_list = r.track_list],
                result |-> r.result, quit |-> FALSE, fetched |-> acc.new_progress,
                progress_queries |-> acc.queries, track_list_queries |-> r.queries]

\* ------------------------------------------------------- PlayerWatcher
\* self is [player, buffer, last_progress, track_list]; player and
\* last_progress are Options.
PlayerWatcher_detect_playback_status_events(self, new_progress) ==
    IF IsSome(self.last_progress)
    THEN IF Unwrap(self.last_progress).playback_status = new_progress.playback_status
         THEN self.buffer
         ELSE Append(self.buffer, EventFromStatus(new_progress.playback_status))
    ELSE Append(self.buffer, EventFromStatus(new_progress.playback_status))

PlayerWatcher_detect_loop_status_events(self, new_progress) ==
    IF IsSome(self.last_progress)
    THEN IF Unwrap(self.last_progress).loop_status # new_progress.loop_status
         THEN Append(self.buffer, LoopingChanged(new_progress.loop_status))
         ELSE self.buffer
    ELSE Append(self.buffer, LoopingChanged(new_progress.loop_status))

\* [buffer, changed]
PlayerWatcher_detect_shuffle_events(self, new_progress) ==
    IF IsSome(self.last_progress)
    THEN IF Unwrap(self.last_progress).shuffle # new_progress.shuffle
         THEN [buffer |-> Append(self.buffer, ShuffleToggled(new_progress.shuffle)),
               changed |-> TRUE]
         ELSE [buffer |-> self.buffer, changed |-> FALSE]
    ELSE [buffer |-> Append(self.buffer, ShuffleToggled(new_progress.shuffle)),
          changed |-> TRUE]

\* detect_volume_events pushing nothing while no Progress is retained.
PlayerWatcher_detect_volume_silent_first(self, new_progress) ==
    IF IsSome(self.last_progress)
    THEN IF is_different_float(Unwrap(self.last_progress).current_volume,
                               new_progress.current_volume)
         THEN Append(self.buffer, VolumeChanged(new_progress.current_volume))
         ELSE self.buffer
    ELSE self.buffer

PlayerWatcher_detect_volume_events(self, new_progress) ==
    IF IsSome(self.last_progress)
    THEN IF is_different_float(Unwrap(self.last_progress).current_volume,
                               new_progress.current_volume)
         THEN Append(self.buffer, VolumeChanged(new_progress.current_volume))
         ELSE self.buffer
    ELSE Append(self.buffer, VolumeChanged(new_progress.current_volume))

PlayerWatcher_detect_playback_rate_events(self, new_progress) ==
    IF IsSome(self.last_progress)
    THEN IF is_different_float(Unwrap(self.last_progress).playback_rate,
                               new_progress.playback_rate)
         THEN Append(self.buffer, PlaybackRateChanged(new_progress.playback_rate))
         ELSE self.buffer
    ELSE Append(self.buffer, PlaybackRateChanged(new_progress.playback_rate))

PlayerWatcher_detect_metadata_events(self, new_progress) ==
    LET new_metadata == new_progress.metadata
    IN IF IsSome(self.last_progress)
       THEN LET old_metadata == Unwrap(self.last_progress).metadata
            IN IF \/ old_metadata.track_id # new_metadata.track_id
                  \/ old_metadata.url # new_metadata.url
                  \/ old_metadata.title # new_metadata.title
               THEN Append(self.buffer, TrackChanged(new_metadata))
               ELSE self.buffer
       ELSE Append(self.buffer, TrackChanged(new_metadata))

\* The `if let Some(progress) = new_progress` block: [self, reload].
PlayerWatcher_diff(self, progress) ==
    LET s1 == [self EXCEPT !.buffer = PlayerWatcher_detect_playback_status_events(self, progress)]
        s2 == [s1 EXCEPT !.buffer = PlayerWatcher_detect_loop_status_events(s1, progress)]
        sh == PlayerWatcher_detect_shuffle_events(s2, progress)
        s3 == [s2 EXCEPT !.buffer = sh.buffer]
        s4 == [s3 EXCEPT !.buffer = PlayerWatcher_detect_volume_events(s3, progress)]
        s5 == [s4 EXCEPT !.buffer = PlayerWatcher_detect_playback_rate_events(s4, progress)]
        s6 == [s5 EXCEPT !.buffer = PlayerWatcher_detect_metadata_events(s5, progress)]
    IN [self |-> [s6 EXCEPT !.last_progress = Some(progress)], reload |-> sh.changed]

\* PlayerWatcher::read_events from the point where the blocking wait returns,
\* on the drained batch `events`: [self, result, quit, fetched].  The first
\* `None => return Err(NoPlayer)` is taken before the wait (see
\* PlayerWatcher_read_events_enter); the second one is here.
PlayerWatcher_read_events(self, events, from_player, get_track_list) ==
    LET acc == ForEachEvent(Locals(self), events, from_player)
        s0 == [self EXCEPT !.buffer = acc.buffer, !.track_list = acc.track_list]
    IN IF acc.flow = "quit"
       THEN [self |-> s0, result |-> <<"Ok">>, quit |-> TRUE, fetched |-> acc.new_progress,
             progress_queries |-> acc.queries, track_list_queries |-> 0]
       ELSE IF acc.flow = "error"
       THEN [self |-> s0, result |-> RetErr(DBusError), quit |-> FALSE, fetched |-> None,
             progress_queries |-> acc.queries, track_list_queries |-> 0]
       ELSE LET d == IF IsSome(acc.new_progress)
                     THEN PlayerWatcher_diff(s0, Unwrap(acc.new_progress))
                     ELSE [self |-> s0, reload |-> FALSE]
            IN IF ~IsSome(d.self.player)
               THEN [self |-> d.self, result |-> RetErr(NoPlayer), quit |-> FALSE,
                     fetched |-> acc.new_progress,
                     progress_queries |-> acc.queries, track_list_queries |-> 0]
               ELSE LET r == ReloadTrackList(d.self.buffer, d.self.track_list,
                                             acc.reload_track_list \/ d.reload,
                                             get_track_list)
                    IN [self |-> [d.self EXCEPT !.buffer = r.buffer,
                                                !.track_list = r.track_list],
                        result |-> r.result, quit |-> FALSE, fetched |-> acc.new_progress,
                progress_queries |-> acc.queries, track_list_queries |-> r.queries]

\* ------------------------------------------------------- next()
\* A run of next() from one of its entry points up to the place where it
\* blocks or returns: [self, pc, item].  pc is "idle" when next() returned
\* `item`, "wait" when it blocks in process_events_blocking_until_received and
\* "find" when it blocks in wait_for_player; item is None unless it returned.

\* Player::is_running for the handle of player instance g, in a world where
\* the live instance (if any) is number `live`.
is_running(g, isalive, live) == isalive /\ live = g

\* PlayerEvents::next with the liveness test ahead of the buffer test: it
\* returns None as soon as the player is gone, whatever the buffer holds.
PlayerEvents_loop_running_first(self, running) ==
    IF ~running
    THEN [self |-> self, pc |-> "idle", item |-> Some(RetNone)]
    ELSE IF self.buffer = <<>>
    THEN [self |-> self, pc |-> "wait", item |-> None]
    ELSE [self |-> [self EXCEPT !.buffer = Tail(@)], pc |-> "idle",
          item |-> Some(RetOk(Head(self.buffer)))]

\* PlayerEvents::next returning None as soon as the buffer is empty, without
\* asking whether the player runs and without waiting.
PlayerEvents_loop_gives_up(self, running) ==
    IF self.buffer = <<>>
    THEN [self |-> self, pc |-> "idle", item |-> Some(RetNone)]
    ELSE [self |-> [self EXCEPT !.buffer = Tail(@)], pc |-> "idle",
          item |-> Some(RetOk(Head(self.buffer)))]

\* PlayerEvents::next from the head of `while self.buffer.is_empty()`.
PlayerEvents_loop(self, running) ==
    IF self.buffer = <<>>
    THEN IF ~running
         THEN [self |-> self, pc |-> "idle", item |-> Some(RetNone)]
         ELSE [self |-> self, pc |-> "wait", item |-> None]
    ELSE [self |-> [self EXCEPT !.buffer = Tail(@)], pc |-> "idle",
          item |-> Some(RetOk(Head(self.buffer)))]

\* The attachment ending the iteration when the finder has no player, where
\* wait_for_player blocks.
PlayerWatcher_attach_gives_up(self, found) ==
    IF ~IsOk(found)
    THEN [self |-> self, pc |-> "idle", item |-> Some(RetErr(DBusError))]
    ELSE IF ~IsSome(Value(found))
    THEN [self |-> self, pc |-> "idle", item |-> Some(RetNone)]
    ELSE [self |-> [self EXCEPT !.player = Value(found),
                                !.buffer = Append(@, PlayerStart)],
          pc |-> "run", item |-> None]

\* The attachment without the push of PlayerStart.
PlayerWatcher_attach_silent(self, found) ==
    IF ~IsOk(found)
    THEN [self |-> self, pc |-> "idle", item |-> Some(RetErr(DBusError))]
    ELSE IF ~IsSome(Value(found))
    THEN [self |-> self, pc |-> "find", item |-> None]
    ELSE [self |-> [self EXCEPT !.player = Value(found)], pc |-> "run", item |-> None]

\* PlayerWatcher::wait_for_proper_player followed by the push of PlayerStart:
\* `found` is what the finder answers: <<"Err">>, <<"Ok", None>> (no player
\* yet: it blocks) or <<"Ok", Some(g)>>.
PlayerWatcher_attach(self, found) ==
    IF ~IsOk(found)
    THEN [self |-> self, pc |-> "idle", item |-> Some(RetErr(DBusError))]
    ELSE IF ~IsSome(Value(found))
    THEN [self |-> self, pc |-> "find", item |-> None]
    ELSE [self |-> [self EXCEPT !.player = Value(found),
                                !.buffer = Append(@, PlayerStart)],
          pc |-> "run", item |-> None]

\* The head of PlayerWatcher::read_events, up to the blocking wait.
PlayerWatcher_read_events_enter(self) ==
    IF ~IsSome(self.player)
    THEN [self |-> self, pc |-> "idle", item |-> Some(RetErr(NoPlayer))]
    ELSE [self |-> self, pc |-> "wait", item |-> None]

\* The inner loop popping the back of the buffer where the code pops its
\* front.
PlayerWatcher_while_pops_back(self, isalive, live) ==
    IF self.buffer = <<>>
    THEN IF IsSome(self.player)
         THEN IF ~is_running(Unwrap(self.player), isalive, live)
              THEN [self |-> [self EXCEPT !.player = None, !.last_progress = None,
                                          !.track_list = None],
                    pc |-> "outer", item |-> None]
              ELSE PlayerWatcher_read_events_enter(self)
         ELSE [self |-> self, pc |-> "outer", item |-> None]
    ELSE [self |-> [self EXCEPT !.buffer = SubSeq(@, 1, Len(@) - 1)], pc |-> "idle",
          item |-> Some(RetOk(self.buffer[Len(self.buffer)]))]

\* The inner loop going on to read_events after it dropped the player, where
\* the code has `continue 'outer`.
PlayerWatcher_while_reads_after_drop(self, isalive, live) ==
    IF self.buffer = <<>>
    THEN IF IsSome(self.player)
         THEN IF ~is_running(Unwrap(self.player), isalive, live)
              THEN PlayerWatcher_read_events_enter(
                       [self EXCEPT !.player = None, !.last_progress = None,
                                    !.track_list = None])
              ELSE PlayerWatcher_read_events_enter(self)
         ELSE [self |-> self, pc |-> "outer", item |-> None]
    ELSE [self |-> [self EXCEPT !.buffer = Tail(@)], pc |-> "idle",
          item |-> Some(RetOk(Head(self.buffer)))]

\* The inner `while self.buffer.is_empty()` of PlayerWatcher::next up to the
\* wait inside read_events: pc "outer" stands for `continue 'outer`.
PlayerWatcher_while(self, isalive, live) ==
    IF self.buffer = <<>>
    THEN IF IsSome(self.player)
         THEN IF ~is_running(Unwrap(self.player), isalive, live)
              THEN [self |-> [self EXCEPT !.player = None, !.last_progress = None,
                                          !.track_list = None],
                    pc |-> "outer", item |-> None]
              ELSE PlayerWatcher_read_events_enter(self)
         ELSE [self |-> self, pc |-> "outer", item |-> None]
    ELSE [self |-> [self EXCEPT !.buffer = Tail(@)], pc |-> "idle",
          item |-> Some(RetOk(Head(self.buffer)))]

\* One pass of 'outer: the attachment when no player is tracked, then the
\* inner loop.
PlayerWatcher_outer(self, found, isalive, live) ==
    LET a == IF ~IsSome(self.player) THEN PlayerWatcher_attach(self, found)
             ELSE [self |-> self, pc |-> "run", item |-> None]
    IN IF a.pc = "run" THEN PlayerWatcher_while(a.self, isalive, live) ELSE a

\* PlayerWatcher::next from the head of 'outer.  A pass that ends in
\* `continue 'outer` has just dropped the player, so the next pass attaches,
\* blocks or fails: two passes reach a block or a return.
PlayerWatcher_loop(self, found, isalive, live) ==
    LET p1 == PlayerWatcher_outer(self, found, isalive, live)
    IN IF p1.pc = "outer" THEN PlayerWatcher_outer(p1.self, found, isalive, live) ELSE p1

\* ------------------------------------------------------- state
VARIABLES
    kind,           \* which iterator runs: "PlayerEvents" or "PlayerWatcher"
    pc,             \* "idle": the caller is outside next(); "wait", "find": next() blocks
    player,         \* Option: the instance number of the tracked player
    buffer,         \* Vec<Event>
    last_progress,  \* Option<Progress>
    track_list,     \* Option<TrackList>
    alive,          \* a player owns the bus name
    gen,            \* instance number of the player that started last
    cur,            \* the player's properties (what Progress::from_player reads)
    tracks,         \* Option: the player's track list; None without the TrackList interface
    pending,        \* notifications queued for the tracked player, not yet drained
    budget,         \* steps the player side may still take
    notes,          \* notifications the player side may still send
    hist,           \* the events next() yielded so far, in order
    ret,            \* Option: the item the last return of next() handed over
    cycle,          \* Option: what the last derivation cycle read and appended
    quit_in_wait,   \* the tracked player quit while next() was blocked in the wait
    op              \* Option: the notification arm run on its own last, and the mirror it met

vars == <<kind, pc, player, buffer, last_progress, track_list, alive, gen, cur,
          tracks, pending, budget, notes, hist, ret, cycle, quit_in_wait, op>>

iter_vars == <<pc, player, buffer, last_progress, track_list, hist, ret, cycle>>

Self == [player |-> player, buffer |-> buffer, last_progress |-> last_progress,
         track_list |-> track_list]

BaseProgress ==
    [playback_status |-> "Stopped", loop_status |-> "None", shuffle |-> FALSE,
     current_volume |-> 0, playback_rate |-> 0,
     metadata |-> [track_id |-> Some("A"), url |-> "u1", title |-> "t1", artists |-> "a1"]]

\* What a player looks like when the iterator first sees it.
StartProgresses ==
    {[BaseProgress EXCEPT !.playback_status = s] : s \in {"Stopped", "Playing"}}

StartTracks == {None, Some(<<"A">>)}

\* Track lists without duplicates, at most MaxTracks long.
RECURSIVE ListsUpTo(_)
ListsUpTo(n) ==
    IF n = 0 THEN {<<>>}
    ELSE LET shorter == ListsUpTo(n - 1)
         IN shorter \cup {Append(l, i) : l \in {x \in shorter : Len(x) = n - 1},
                                         i \in TrackIds}

TrackLists == {l \in ListsUpTo(MaxTracks) : \A i, j \in 1..Len(l) : i # j => l[i] # l[j]}

\* Player::checked_get_track_list once the query is answered.
MirrorOf(t) == IF IsSome(t) THEN Some(TrackListFrom(Unwrap(t))) ELSE None

\* PlayerEvents::new and PlayerWatcher::new / new_with_name, for the cases in
\* which they return an iterator.
Init ==
    /\ kind \in {"PlayerEvents", "PlayerWatcher"}
    /\ alive \in (IF kind = "PlayerEvents" THEN {TRUE} ELSE BOOLEAN)
    /\ gen = IF alive THEN 1 ELSE 0
    /\ cur \in StartProgresses
    /\ tracks \in StartTracks
    /\ player = IF alive THEN Some(1) ELSE None
    /\ last_progress = IF alive THEN Some(cur) ELSE None
    /\ track_list = IF alive THEN MirrorOf(tracks) ELSE None
    /\ buffer = <<>>
    /\ pc = "idle"
    /\ pending = <<>>
    /\ budget = MaxSteps
    /\ notes = MaxNotes
    /\ hist = <<>>
    /\ ret = None
    /\ cycle = None
    /\ quit_in_wait = FALSE
    /\ op = None

\* ------------------------------------------------------- the player side
Tracked == IsSome(player) /\ is_running(Unwrap(player), alive, gen)

EnvStep ==
    /\ budget > 0 /\ notes > 0
    /\ budget' = budget - 1
    /\ notes' = notes - 1
    /\ UNCHANGED <<kind, iter_vars, op>>

LifeStep ==
    /\ budget > 0
    /\ budget' = budget - 1
    /\ UNCHANGED <<kind, notes, iter_vars, op>>

Emit(n) == pending' = Append(pending, n)

\* The values the player can move to by setting one property (or none: a
\* PropertiesChanged for a property the Progress does not hold).
OneChange(p) ==
    {[p EXCEPT !.playback_status = v] : v \in PlaybackStatuses}
    \cup {[p EXCEPT !.loop_status = v] : v \in LoopStatuses}
    \cup {[p EXCEPT !.shuffle = v] : v \in BOOLEAN}
    \cup {[p EXCEPT !.current_volume = v] : v \in Volumes}
    \cup {[p EXCEPT !.playback_rate = v] : v \in Rates}
    \cup {[p EXCEPT !.metadata.track_id = Some(v)] : v \in TrackIds}
    \cup {[p EXCEPT !.metadata.url = v] : v \in Urls}
    \cup {[p EXCEPT !.metadata.title = v] : v \in Titles}
    \cup {[p EXCEPT !.metadata.artists = v] : v \in Artists}

PlayerChangesProperty ==
    /\ Tracked /\ EnvStep
    /\ \E p \in OneChange(cur) : cur' = p
    /\ Emit(NPlayerPropertiesChanged)
    /\ UNCHANGED <<alive, gen, tracks, quit_in_wait>>

PlayerSeeks ==
    /\ Tracked /\ EnvStep
    /\ \E p \in Positions : Emit(NSeeked(p))
    /\ UNCHANGED <<alive, gen, cur, tracks, quit_in_wait>>

\* The player's own list after an edit (it has none without the interface).
Edit(t, ids) == IF IsSome(t) THEN Some(ids) ELSE None

PlayerAddsTrack ==
    /\ Tracked /\ EnvStep
    /\ \E id \in TrackIds, after_id \in TrackIds \cup {NoTrack}, with_id \in BOOLEAN :
         LET ids == IF IsSome(tracks) THEN Unwrap(tracks) ELSE <<>>
         IN /\ ~Contains(ids, id)
            /\ Len(ids) < MaxTracks
            /\ after_id = NoTrack \/ Contains(ids, after_id)
            /\ with_id \/ after_id = NoTrack
            /\ tracks' = IF with_id
                         THEN Edit(tracks, InsertAt(ids, IndexOf(ids, after_id), id))
                         ELSE tracks
            /\ Emit(NTrackAdded(after_id,
                                TrackMeta(IF with_id THEN Some(id) ELSE None, "t1")))
    /\ UNCHANGED <<alive, gen, cur, quit_in_wait>>

PlayerRemovesTrack ==
    /\ Tracked /\ EnvStep
    /\ \E id \in TrackIds :
         LET ids == IF IsSome(tracks) THEN Unwrap(tracks) ELSE <<>>
         IN /\ tracks' = Edit(tracks, IF Contains(ids, id)
                                      THEN RemoveAt(ids, IndexOf(ids, id)) ELSE ids)
            /\ Emit(NTrackRemoved(id))
    /\ UNCHANGED <<alive, gen, cur, quit_in_wait>>

PlayerReplacesTrackList ==
    /\ Tracked /\ EnvStep
    /\ \E ids \in TrackLists :
         /\ tracks' = Edit(tracks, ids)
         /\ Emit(NTrackListReplaced(ids))
    /\ UNCHANGED <<alive, gen, cur, quit_in_wait>>

PlayerChangesTrackMetadata ==
    /\ Tracked /\ EnvStep
    /\ \E old_id \in TrackIds, new_id \in TrackIds :
         LET ids == IF IsSome(tracks) THEN Unwrap(tracks) ELSE <<>>
         IN /\ new_id = old_id \/ ~Contains(ids, new_id)
            /\ tracks' = Edit(tracks, IF Contains(ids, old_id)
                                      THEN [ids EXCEPT ![IndexOf(ids, old_id)] = new_id]
                                      ELSE ids)
            /\ Emit(NTrackMetadataChanged(old_id, TrackMeta(Some(new_id), "t2")))
    /\ UNCHANGED <<alive, gen, cur, quit_in_wait>>

PlayerChangesTrackListProperty ==
    /\ Tracked /\ EnvStep
    /\ Emit(NTrackListPropertiesChanged)
    /\ UNCHANGED <<alive, gen, cur, tracks, quit_in_wait>>

\* The player leaves the bus; its handle learns it from a PlayerQuit
\* notification.
PlayerQuits ==
    /\ alive /\ LifeStep
    /\ alive' = FALSE
    /\ pending' = IF Tracked THEN Append(pending, NPlayerQuit) ELSE pending
    /\ quit_in_wait' = (quit_in_wait \/ (Tracked /\ pc = "wait"))
    /\ UNCHANGED <<gen, cur, tracks>>

\* A new player instance takes the bus name (only the watcher looks for one).
PlayerStarts ==
    /\ kind = "PlayerWatcher" /\ ~alive /\ LifeStep
    /\ alive' = TRUE
    /\ gen' = gen + 1
    /\ cur' \in StartProgresses
    /\ tracks' \in StartTracks
    /\ UNCHANGED <<pending, quit_in_wait>>

\* ------------------------------------------------------- the iterators
\* The answers the player can give to a query: an error at any time, and
\* nothing but an error once it is gone.
ProgressAnswers == IF Tracked THEN {QueryOk(cur), QueryErr} ELSE {QueryErr}

TrackListAnswers(t) == IF Tracked THEN {QueryOk(MirrorOf(t)), QueryErr} ELSE {QueryErr}

\* What the player may do to its track list while a cycle runs, after the
\* batch was drained and before checked_get_track_list is answered: nothing,
\* or one edit, whose notification is queued for the next cycle.
\* [tracks : the list the query sees, sent : the notifications queued].
MidCycle ==
    {[tracks |-> tracks, sent |-> <<>>]}
    \cup IF Tracked /\ IsSome(tracks) /\ budget > 0 /\ notes > 0
         THEN LET ids == Unwrap(tracks)
              IN {[tracks |-> Some(InsertAt(ids, IndexOf(ids, after_id), id)),
                   sent |-> <<NTrackAdded(after_id, TrackMeta(Some(id), "t1"))>>] :
                      <<id, after_id>> \in
                          {x \in TrackIds \X (TrackIds \cup {NoTrack}) :
                              /\ ~Contains(ids, x[1])
                              /\ Len(ids) < MaxTracks
                              /\ x[2] = NoTrack \/ Contains(ids, x[2])}}
                 \cup {[tracks |-> Some(RemoveAt(ids, IndexOf(ids, id))),
                        sent |-> <<NTrackRemoved(id)>>] :
                           id \in {x \in TrackIds : Contains(ids, x)}}
         ELSE {}

\* The player side of a cycle in which the player did `mid`.
DuringCycle(mid) ==
    /\ tracks' = mid.tracks
    /\ budget' = budget - Len(mid.sent)
    /\ notes' = notes - Len(mid.sent)

\* PlayerFinder::find_active / find_with_name inside wait_for_player.
FinderAnswers == {QueryOk(IF alive THEN Some(gen) ELSE None), QueryErr}

\* hist after next() returned `item` (or blocked: item = None).
Record(h, item) ==
    IF IsSome(item) /\ Unwrap(item)[1] = "Ok" THEN Append(h, Unwrap(item)[2]) ELSE h

\* What a derivation cycle read and did: r is the result of read_events on
\* `self` and the batch `events`.
CycleRecord(self, events, r) ==
    [n |-> IF IsSome(cycle) THEN Unwrap(cycle).n + 1 ELSE 1,
     clean |-> (IsSome(cycle) => Unwrap(cycle).clean) /\ r.result = <<"Ok">>,
     batch |-> events,
     prev |-> self.last_progress,
     fetched |-> r.fetched,
     retained |-> r.self.last_progress,
     mirror_before |-> self.track_list,
     mirror_after |-> r.self.track_list,
     events |-> SubSeq(r.self.buffer, Len(self.buffer) + 1, Len(r.self.buffer)),
     buffered |-> Len(self.buffer),
     quit |-> r.quit,
     result |-> r.result,
     progress_queries |-> r.progress_queries,
     track_list_queries |-> r.track_list_queries,
     at |-> Len(hist)]

\* next() hands over: n is [self, pc, item].
Commit(n) ==
    /\ pc' = n.pc
    /\ player' = n.self.player
    /\ buffer' = n.self.buffer
    /\ last_progress' = n.self.last_progress
    /\ track_list' = n.self.track_list
    /\ hist' = Record(hist, n.item)
    /\ ret' = IF IsSome(n.item) THEN n.item ELSE ret
    /\ UNCHANGED op

\* next() throwing away what the failed cycle had pushed.
PlayerEvents_after_read_drops_buffer(r, running) ==
    IF r.result = <<"Ok">> THEN PlayerEvents_loop(r.self, running)
    ELSE [self |-> [r.self EXCEPT !.buffer = <<>>], pc |-> "idle", item |-> Some(r.result)]

\* `match self.read_events() { Ok(_) => {} Err(err) => return Some(Err(err)) }`
\* and the rest of PlayerEvents::next.
PlayerEvents_after_read(r, running) ==
    IF r.result = <<"Ok">> THEN PlayerEvents_loop(r.self, running)
    ELSE [self |-> r.self, pc |-> "idle", item |-> Some(r.result)]

\* The same in PlayerWatcher::next: the inner loop goes on, and on
\* `continue 'outer` so does the outer one.
PlayerWatcher_after_read(r, found, isalive, live) ==
    IF r.result = <<"Ok">>
    THEN LET w == PlayerWatcher_while(r.self, isalive, live)
         IN IF w.pc = "outer" THEN PlayerWatcher_loop(w.self, found, isalive, live) ELSE w
    ELSE [self |-> r.self, pc |-> "idle", item |-> Some(r.result)]

\* The caller calls PlayerEvents::next.
PlayerEvents_next ==
    /\ kind = "PlayerEvents" /\ pc = "idle"
    /\ Commit(PlayerEvents_loop(Self, Tracked))
    /\ UNCHANGED <<kind, alive, gen, cur, tracks, pending, budget, notes, cycle, quit_in_wait>>

\* process_events_blocking_until_received returns inside PlayerEvents::next:
\* the batch is drained and the cycle runs.
PlayerEvents_wake ==
    /\ kind = "PlayerEvents" /\ pc = "wait" /\ pending # <<>>
    /\ \E mid \in MidCycle :
         \E from_player \in ProgressAnswers, get_track_list \in TrackListAnswers(mid.tracks) :
            \E r \in {PlayerEvents_read_events(Self, pending, from_player, get_track_list)} :
              \E n \in {PlayerEvents_after_read(r, Tracked)} :
               /\ Commit(n)
               /\ cycle' = Some(CycleRecord(Self, pending, r))
               /\ pending' = mid.sent
               /\ DuringCycle(mid)
    /\ UNCHANGED <<kind, alive, gen, cur, quit_in_wait>>

\* The notifications of a newly attached player are queued from then on.
PendingAfter(n) ==
    IF IsSome(n.self.player) /\ n.self.player # player THEN <<>> ELSE pending

\* The caller calls PlayerWatcher::next.
PlayerWatcher_next ==
    /\ kind = "PlayerWatcher" /\ pc = "idle"
    /\ \E found \in FinderAnswers :
         LET n == PlayerWatcher_loop(Self, found, alive, gen)
         IN Commit(n) /\ pending' = PendingAfter(n)
    /\ UNCHANGED <<kind, alive, gen, cur, tracks, budget, notes, cycle, quit_in_wait>>

\* wait_for_player returns inside PlayerWatcher::next: a player appeared, or
\* the finder failed.
PlayerWatcher_found ==
    /\ kind = "PlayerWatcher" /\ pc = "find"
    /\ \E found \in FinderAnswers \ {QueryOk(None)} :
         LET n == PlayerWatcher_loop(Self, found, alive, gen)
         IN Commit(n) /\ pending' = PendingAfter(n)
    /\ UNCHANGED <<kind, alive, gen, cur, tracks, budget, notes, cycle, quit_in_wait>>

\* process_events_blocking_until_received returns inside
\* PlayerWatcher::read_events.
PlayerWatcher_wake ==
    /\ kind = "PlayerWatcher" /\ pc = "wait" /\ pending # <<>>
    /\ \E mid \in MidCycle :
         \E from_player \in ProgressAnswers, get_track_list \in TrackListAnswers(mid.tracks),
            found \in FinderAnswers :
            LET r == PlayerWatcher_read_events(Self, pending, from_player, get_track_list)
                n == PlayerWatcher_after_read(r, found, alive, gen)
            IN /\ Commit(n)
               /\ cycle' = Some(CycleRecord(Self, pending, r))
               /\ pending' = mid.sent
               /\ DuringCycle(mid)
    /\ UNCHANGED <<kind, alive, gen, cur, quit_in_wait>>

Next ==
    \/ PlayerChangesProperty
    \/ PlayerSeeks
    \/ PlayerAddsTrack
    \/ PlayerRemovesTrack
    \/ PlayerReplacesTrackList
    \/ PlayerChangesTrackMetadata
    \/ PlayerChangesTrackListProperty
    \/ PlayerQuits
    \/ PlayerStarts
    \/ PlayerEvents_next
    \/ PlayerEvents_wake
    \/ PlayerWatcher_next
    \/ PlayerWatcher_found
    \/ PlayerWatcher_wake

Spec == Init /\ [][Next]_vars

\* ------------------------------------------------------- the arms on their own
\* The track-list arms of read_events run one notification at a time on a
\* mirror, with no player and no iterator around them: the notifications are
\* any the transport can carry, whether or not they fit the mirror.
\* track_list is the mirror (none when the player has no track list), buffer
\* what the last arm pushed.
RECURSIVE MirrorListsUpTo(_)
MirrorListsUpTo(n) ==
    IF n = 0 THEN {<<>>}
    ELSE LET shorter == MirrorListsUpTo(n - 1)
         IN shorter \cup {Append(l, i) : l \in {x \in shorter : Len(x) = n - 1},
                                         i \in MirrorIds}

\* A mirror starts from a list of the player: no id twice.
MirrorStartLists ==
    {l \in MirrorListsUpTo(MaxLen) : \A i, j \in 1..Len(l) : i # j => l[i] # l[j]}

MirrorMetadatas(title) ==
    {TrackMeta(idopt, title) : idopt \in {None} \cup {Some(i) : i \in MirrorIds}}

MirrorInit ==
    /\ kind = "TrackList"
    /\ track_list \in {None} \cup {Some(TrackListFrom(l)) : l \in MirrorStartLists}
    /\ buffer = <<>>
    /\ op = None
    /\ pc = "idle" /\ player = None /\ last_progress = None
    /\ alive = FALSE /\ gen = 0 /\ cur = BaseProgress /\ tracks = None
    /\ pending = <<>> /\ budget = 0 /\ notes = 0
    /\ hist = <<>> /\ ret = None /\ cycle = None /\ quit_in_wait = FALSE

\* One arm of the match, on the notification n.
RunArm(n) ==
    LET acc == MatchEvent(Locals([buffer |-> <<>>, track_list |-> track_list]), n, QueryErr)
    IN /\ track_list' = acc.track_list
       /\ buffer' = acc.buffer
       /\ op' = Some([note |-> n, before |-> track_list])
       /\ UNCHANGED <<kind, pc, player, last_progress, alive, gen, cur, tracks, pending,
                      budget, notes, hist, ret, cycle, quit_in_wait>>

Mirror_TrackAdded ==
    /\ kind = "TrackList"
    /\ \E after_id \in MirrorIds \cup {NoTrack}, metadata \in MirrorMetadatas("t1") :
         /\ (IsSome(metadata.track_id) /\ IsSome(track_list)) =>
               Len(Unwrap(track_list).ids) < MaxLen
         /\ RunArm(NTrackAdded(after_id, metadata))

Mirror_TrackRemoved ==
    /\ kind = "TrackList"
    /\ \E id \in MirrorIds : RunArm(NTrackRemoved(id))

Mirror_TrackMetadataChanged ==
    /\ kind = "TrackList"
    /\ \E old_id \in MirrorIds, metadata \in MirrorMetadatas("t2") :
         RunArm(NTrackMetadataChanged(old_id, metadata))

MirrorNext ==
    \/ Mirror_TrackAdded
    \/ Mirror_TrackRemoved
    \/ Mirror_TrackMetadataChanged

MirrorSpec == MirrorInit /\ [][MirrorNext]_vars

\* ------------------------------------------------------- value types
\* The value types of the crate are pure: each is checked by a specification
\* of its own whose actions apply one operation to an input and record it in
\* op.  The iterator's variables are not used and stay as they start.
ValueInit(k) ==
    /\ kind = k
    /\ op = None
    /\ track_list = None /\ buffer = <<>>
    /\ pc = "idle" /\ player = None /\ last_progress = None
    /\ alive = FALSE /\ gen = 0 /\ cur = BaseProgress /\ tracks = None
    /\ pending = <<>> /\ budget = 0 /\ notes = 0
    /\ hist = <<>> /\ ret = None /\ cycle = None /\ quit_in_wait = FALSE

\* One operation is applied in a run.
Fresh(k) == kind = k /\ op = None

Apply(o) ==
    /\ op' = Some(o)
    /\ UNCHANGED <<kind, pc, player, buffer, last_progress, track_list, alive, gen, cur,
                   tracks, pending, budget, notes, hist, ret, cycle, quit_in_wait>>

Ok(x) == <<"Ok", x>>
Err(e) == <<"Err", e>>
IsErr(r) == r[1] = "Err"

\* ------------------------------------------------------- TrackID
\* A string is a sequence of tokens.  No token is a prefix of another, so a
\* string starts with another exactly when its tokens do.  "x" is a character
\* allowed in an object path's element, "." one that is not.
Tokens == {"/", "org", "mpris", "MediaPlayer2", "TrackList", "NoTrack", "x", "."}

NO_TRACK == <<"/", "org", "/", "mpris", "/", "MediaPlayer2", "/", "TrackList", "/", "NoTrack">>

\* The literal of check_start.
ReservedPrefix == <<"/", "org", "/", "mpris">>

starts_with(s, prefix) == Len(prefix) <= Len(s) /\ SubSeq(s, 1, Len(prefix)) = prefix

RECURSIVE TokenStrings(_)
TokenStrings(n) ==
    IF n = 0 THEN {<<>>}
    ELSE LET shorter == TokenStrings(n - 1)
         IN shorter \cup {Append(t, c) : t \in {x \in shorter : Len(x) = n - 1}, c \in Tokens}

\* Candidate strings: the short ones, and every prefix of NO_TRACK with a
\* shorter tail.
Candidates ==
    TokenStrings(MaxPath)
    \cup {SubSeq(NO_TRACK, 1, n) \o t : n \in 1..Len(NO_TRACK), t \in TokenStrings(MaxPath - 1)}

\* zvariant's ObjectPath: "/" alone, or elements of [A-Za-z0-9_] each led by
\* one "/", no element empty.
IsObjectPath(s) ==
    /\ Len(s) >= 1 /\ s[1] = "/"
    /\ \A i \in 1..Len(s) : s[i] # "."
    /\ Len(s) > 1 => s[Len(s)] # "/"
    /\ \A i \in 1..(Len(s) - 1) : ~(s[i] = "/" /\ s[i + 1] = "/")

ObjectPaths == {s \in Candidates : IsObjectPath(s)}

OwnedObjectPath_try_from(s) ==
    IF IsObjectPath(s) THEN Ok(s) ELSE Err("invalid object path")

TrackID(path) == [path |-> path]

\* check_start refusing the sentinel as well.
check_start_no_sentinel(s) ==
    IF starts_with(s, ReservedPrefix)
    THEN Err("TrackID can't start with /org/mpris")
    ELSE Ok(s)

check_start(s) ==
    IF starts_with(s, ReservedPrefix) /\ s # NO_TRACK
    THEN Err("TrackID can't start with /org/mpris")
    ELSE Ok(s)

no_track == TrackID(NO_TRACK)

as_str(self) == self.path

is_no_track(self) == as_str(self) = NO_TRACK

\* TryFrom<&str> and TryFrom<String>.
TrackID_try_from_str(value) ==
    LET checked == check_start(value)
    IN IF IsErr(checked) THEN checked
       ELSE LET o == OwnedObjectPath_try_from(checked[2])
            IN IF IsOk(o) THEN Ok(TrackID(o[2])) ELSE o

TrackID_new(id) == TrackID_try_from_str(id)

\* TryFrom<OwnedObjectPath> and TryFrom<ObjectPath>.
TrackID_try_from_object_path(value) ==
    LET checked == check_start(value)
    IN IF IsOk(checked) THEN Ok(TrackID(value)) ELSE checked

\* MetadataValue: the variant's name, then its payload.
MVString(v) == <<"String", v>>
MVStrings(v) == <<"Strings", v>>
MVSignedInt(v) == <<"SignedInt", v>>
MVUnsignedInt(v) == <<"UnsignedInt", v>>
MVBoolean(v) == <<"Boolean", v>>
MVFloat(v) == <<"Float", v>>
MVUnsupported == <<"Unsupported">>

TrackID_try_from_metadata_value(value) ==
    CASE value[1] = "String" -> TrackID_try_from_str(value[2])
      [] value[1] = "Strings" /\ Len(value[2]) = 1 -> TrackID_try_from_str(value[2][Len(value[2])])
      [] OTHER -> Err("not a string")

\* zvariant's Value, as far as TrackID reads it.
TrackID_try_from_value(value) ==
    CASE value[1] = "Str" -> TrackID_try_from_str(value[2])
      [] value[1] = "ObjectPath" -> TrackID_try_from_object_path(value[2])
      [] OTHER -> Err("not a String or ObjectPath")

\* The values a track id can be asked from: text is the candidate string the
\* value holds, if it holds one.
TrackIDMetadataValues ==
    {[value |-> MVString(s), text |-> Some(s)] : s \in Candidates}
    \cup {[value |-> MVStrings(<<s>>), text |-> Some(s)] : s \in Candidates}
    \cup {[value |-> MVStrings(<<s, NO_TRACK>>), text |-> None] : s \in {<<>>, NO_TRACK}}
    \cup {[value |-> v, text |-> None] : v \in {MVStrings(<<>>), MVSignedInt(0), MVUnsupported}}

TrackIDValues ==
    {[value |-> <<"Str", s>>, text |-> Some(s)] : s \in Candidates}
    \cup {[value |-> <<"ObjectPath", s>>, text |-> Some(s)] : s \in ObjectPaths}
    \cup {[value |-> <<"Bool", TRUE>>, text |-> None]}

Constructed(fn, input, text, result) ==
    Apply([fn |-> fn, input |-> input, text |-> text, result |-> result])

TrackIDInit == ValueInit("TrackID")

TrackID_New ==
    /\ Fresh("TrackID")
    /\ \E id \in Candidates : Constructed("new", id, Some(id), TrackID_new(id))

TrackID_TryFromStr ==
    /\ Fresh("TrackID")
    /\ \E s \in Candidates : Constructed("try_from_str", s, Some(s), TrackID_try_from_str(s))

TrackID_TryFromObjectPath ==
    /\ Fresh("TrackID")
    /\ \E s \in ObjectPaths :
         Constructed("try_from_object_path", s, Some(s), TrackID_try_from_object_path(s))

TrackID_TryFromMetadataValue ==
    /\ Fresh("TrackID")
    /\ \E v \in TrackIDMetadataValues :
         Constructed("try_from_metadata_value", v.value, v.text,
                     TrackID_try_from_metadata_value(v.value))

TrackID_TryFromValue ==
    /\ Fresh("TrackID")
    /\ \E v \in TrackIDValues :
         Constructed("try_from_value", v.value, v.text, TrackID_try_from_value(v.value))

TrackID_NoTrack ==
    /\ Fresh("TrackID")
    /\ Constructed("no_track", <<>>, None, Ok(no_track))

TrackIDNext ==
    \/ TrackID_New
    \/ TrackID_TryFromStr
    \/ TrackID_TryFromObjectPath
    \/ TrackID_TryFromMetadataValue
    \/ TrackID_TryFromValue
    \/ TrackID_NoTrack

TrackIDSpec == TrackIDInit /\ [][TrackIDNext]_vars

\* ------------------------------------------------------- MetadataValue integers
I64_MAX == 2^(Bits - 1) - 1
I64_MIN == -(2^(Bits - 1))
U64_MAX == 2^Bits - 1
I64 == I64_MIN..I64_MAX
U64 == 0..U64_MAX

\* The casts `as u64` and `as i64`: the same bits read the other way.
as_u64(i) == i % 2^Bits
as_i64(u) == IF u > I64_MAX THEN u - 2^Bits ELSE u

clamp(v, lo, hi) == IF v < lo THEN lo ELSE IF v > hi THEN hi ELSE v

into_i64(self) ==
    CASE self[1] = "SignedInt" -> Some(self[2])
      [] self[1] = "UnsignedInt" -> Some(as_i64(clamp(self[2], 0, as_u64(I64_MAX))))
      [] OTHER -> None

\* into_u64 casting a negative value instead of mapping it to 0.
into_u64_cast(self) ==
    CASE self[1] = "SignedInt" -> Some(as_u64(self[2]))
      [] self[1] = "UnsignedInt" -> Some(self[2])
      [] OTHER -> None

into_u64(self) ==
    CASE self[1] = "SignedInt" /\ self[2] < 0 -> Some(0)
      [] self[1] = "SignedInt" -> Some(as_u64(self[2]))
      [] self[1] = "UnsignedInt" -> Some(self[2])
      [] OTHER -> None

i64_try_from(value) ==
    CASE value[1] = "SignedInt" -> Ok(value[2])
      [] value[1] = "UnsignedInt" ->
            IF value[2] <= as_u64(I64_MAX)
            THEN Ok(as_i64(value[2]))
            ELSE Err("value too big for i64")
      [] OTHER -> Err("expected MetadataValue::SignedInt or MetadataValue::UnsignedInt")

u64_try_from(value) ==
    CASE value[1] = "UnsignedInt" -> Ok(value[2])
      [] value[1] = "SignedInt" ->
            IF value[2] >= 0
            THEN Ok(as_u64(value[2]))
            ELSE Err("value is negative")
      [] OTHER -> Err("expected MetadataValue::SignedInt or MetadataValue::UnsignedInt")

\* f64: a number, or NaN, which equals nothing.
F64(v) == [nan |-> FALSE, v |-> v]
NaN == [nan |-> TRUE, v |-> 0]
f64_eq(a, b) == ~a.nan /\ ~b.nan /\ a.v = b.v

IntegerValues == {MVSignedInt(i) : i \in I64} \cup {MVUnsignedInt(u) : u \in U64}

OtherValues ==
    {MVBoolean(TRUE), MVFloat(F64(1)), MVString(<<"x">>), MVStrings(<<>>),
     MVStrings(<<<<"x">>>>), MVUnsupported}

Coerced(fn, input, result) == Apply([fn |-> fn, input |-> input, result |-> result])

IntegerInit == ValueInit("MetadataValue")

MetadataValue_into_i64 ==
    /\ Fresh("MetadataValue")
    /\ \E v \in IntegerValues \cup OtherValues : Coerced("into_i64", v, into_i64(v))

MetadataValue_into_u64 ==
    /\ Fresh("MetadataValue")
    /\ \E v \in IntegerValues \cup OtherValues : Coerced("into_u64", v, into_u64(v))

MetadataValue_try_into_i64 ==
    /\ Fresh("MetadataValue")
    /\ \E v \in IntegerValues \cup OtherValues : Coerced("i64::try_from", v, i64_try_from(v))

MetadataValue_try_into_u64 ==
    /\ Fresh("MetadataValue")
    /\ \E v \in IntegerValues \cup OtherValues : Coerced("u64::try_from", v, u64_try_from(v))

IntegerNext ==
    \/ MetadataValue_into_i64
    \/ MetadataValue_into_u64
    \/ MetadataValue_try_into_i64
    \/ MetadataValue_try_into_u64

IntegerSpec == IntegerInit /\ [][IntegerNext]_vars

\* ------------------------------------------------------- MprisDuration
\* const MAX: u64 = i64::MAX as u64
MAX == as_u64(I64_MAX)

MprisDuration(v) == [value |-> v]

new_from_u64(value) == MprisDuration(clamp(value, 0, MAX))

new_from_i64(value) == MprisDuration(as_u64(clamp(value, 0, I64_MAX)))

new_max == MprisDuration(MAX)

MprisDuration_default == MprisDuration(0)

MprisDuration_try_from_i64(value) ==
    IF value < 0 THEN Err("negative") ELSE Ok(MprisDuration(as_u64(value)))

MprisDuration_try_from_u64(value) ==
    IF value > MAX THEN Err("too big") ELSE Ok(MprisDuration(value))

\* Duration::as_micros is a u128; micros stands for it.
MprisDuration_try_from_duration(micros) ==
    IF micros > U64_MAX THEN Err("too big") ELSE MprisDuration_try_from_u64(micros)

MprisDuration_try_from_metadata_value(value) ==
    CASE value[1] = "SignedInt" -> MprisDuration_try_from_i64(value[2])
      [] value[1] = "UnsignedInt" -> MprisDuration_try_from_u64(value[2])
      [] OTHER -> Err("unsupported MetadataValue type")

\* From<MprisDuration> for i64 and for u64.
i64_from_duration(value) == as_i64(value.value)
u64_from_duration(value) == value.value

saturating_mul(a, b) == IF a * b > U64_MAX THEN U64_MAX ELSE a * b
saturating_add(a, b) == IF a + b > U64_MAX THEN U64_MAX ELSE a + b
saturating_sub(a, b) == IF a - b < 0 THEN 0 ELSE a - b

\* impl_math!: the operators give Some(duration); a division by 0 panics
\* and gives none.
MprisDuration_mul(self, rhs) == Some(MprisDuration(clamp(saturating_mul(self.value, rhs), 0, MAX)))

MprisDuration_div(self, rhs) ==
    IF rhs = 0 THEN None ELSE Some(MprisDuration(clamp(self.value \div rhs, 0, MAX)))

\* Add without the clamp to MAX.
MprisDuration_add_unclamped(self, rhs) == Some(MprisDuration(saturating_add(self.value, rhs)))

MprisDuration_add(self, rhs) == Some(MprisDuration(clamp(saturating_add(self.value, rhs), 0, MAX)))

MprisDuration_sub(self, rhs) == Some(MprisDuration(clamp(saturating_sub(self.value, rhs), 0, MAX)))

\* op holds the operation applied last, its input, the duration it was
\* applied to and the duration held after it (none after a failed TryFrom or
\* a panic).
Held == IF IsSome(op) THEN Unwrap(op).held ELSE None

Make(fn, input, held) ==
    /\ kind = "MprisDuration"
    /\ op' = Some([fn |-> fn, input |-> input, before |-> None, held |-> held])
    /\ UNCHANGED <<pc, kind, player, buffer, last_progress, track_list, alive, gen, cur,
                   tracks, pending, budget, notes, hist, ret, cycle, quit_in_wait>>

Math(fn, rhs, held) ==
    /\ kind = "MprisDuration" /\ IsSome(Held)
    /\ op' = Some([fn |-> fn, input |-> rhs, before |-> Held, held |-> held])
    /\ UNCHANGED <<pc, kind, player, buffer, last_progress, track_list, alive, gen, cur,
                   tracks, pending, budget, notes, hist, ret, cycle, quit_in_wait>>

OkOrNone(r) == IF IsOk(r) THEN Some(r[2]) ELSE None

DurationInit == ValueInit("MprisDuration")

Duration_new_from_u64 == \E value \in U64 : Make("new_from_u64", value, Some(new_from_u64(value)))

Duration_new_from_i64 == \E value \in I64 : Make("new_from_i64", value, Some(new_from_i64(value)))

Duration_new_max == Make("new_max", 0, Some(new_max))

Duration_default == Make("default", 0, Some(MprisDuration_default))

Duration_try_from_i64 ==
    \E value \in I64 : Make("try_from_i64", value, OkOrNone(MprisDuration_try_from_i64(value)))

Duration_try_from_u64 ==
    \E value \in U64 : Make("try_from_u64", value, OkOrNone(MprisDuration_try_from_u64(value)))

Duration_try_from_duration ==
    \E micros \in 0..(U64_MAX + 1) :
       Make("try_from_duration", micros, OkOrNone(MprisDuration_try_from_duration(micros)))

Duration_try_from_metadata_value ==
    \E value \in IntegerValues \cup OtherValues :
       Make("try_from_metadata_value", value,
            OkOrNone(MprisDuration_try_from_metadata_value(value)))

Duration_mul == \E rhs \in U64 : Math("mul", rhs, MprisDuration_mul(Unwrap(Held), rhs))

Duration_div == \E rhs \in U64 : Math("div", rhs, MprisDuration_div(Unwrap(Held), rhs))

Duration_add == \E rhs \in U64 : Math("add", rhs, MprisDuration_add(Unwrap(Held), rhs))

Duration_sub == \E rhs \in U64 : Math("sub", rhs, MprisDuration_sub(Unwrap(Held), rhs))

DurationNext ==
    \/ Duration_new_from_u64
    \/ Duration_new_from_i64
    \/ Duration_new_max
    \/ Duration_default
    \/ Duration_try_from_i64
    \/ Duration_try_from_u64
    \/ Duration_try_from_duration
    \/ Duration_try_from_metadata_value
    \/ Duration_mul
    \/ Duration_div
    \/ Duration_add
    \/ Duration_sub

DurationSpec == DurationInit /\ [][DurationNext]_vars

\* ------------------------------------------------------- Metadata
\* gen_metadata_struct! treats every field alike, by its type alone: one
\* field of each type stands for the twenty-two, in the order of the struct.
FieldOrder ==
    <<"xesam:artist", "xesam:audioBPM", "xesam:autoRating", "mpris:length", "xesam:title",
      "mpris:trackid">>

WellKnown == {FieldOrder[i] : i \in 1..Len(FieldOrder)}

AllKeys == WellKnown \cup {"other"}

FieldType(key) ==
    CASE key = "xesam:artist" -> "Vec<String>"
      [] key = "xesam:audioBPM" -> "u64"
      [] key = "xesam:autoRating" -> "f64"
      [] key = "mpris:length" -> "MprisDuration"
      [] key = "xesam:title" -> "String"
      [] key = "mpris:trackid" -> "TrackID"

f64_try_from(value) ==
    IF value[1] = "Float" THEN Ok(value[2]) ELSE Err("expected MetadataValue::Float")

String_try_from(value) ==
    CASE value[1] = "String" -> Ok(value[2])
      [] value[1] = "Strings" ->
            IF Len(value[2]) = 1
            THEN Ok(value[2][Len(value[2])])
            ELSE Err("MetadataValue::Strings contains more than 1 String")
      [] OTHER -> Err("expected MetadataValue::Strings or MetadataValue::String")

VecString_try_from(value) ==
    CASE value[1] = "String" -> Ok(<<value[2]>>)
      [] value[1] = "Strings" -> Ok(value[2])
      [] OTHER -> Err("expected MetadataValue::Strings or MetadataValue::String")

\* <$type>::try_from(v)
TypeTryFrom(type, v) ==
    CASE type = "Vec<String>" -> VecString_try_from(v)
      [] type = "u64" -> u64_try_from(v)
      [] type = "f64" -> f64_try_from(v)
      [] type = "MprisDuration" -> MprisDuration_try_from_metadata_value(v)
      [] type = "String" -> String_try_from(v)
      [] type = "TrackID" -> TrackID_try_from_metadata_value(v)

\* MetadataValue::from turning a u64 into a SignedInt.
MetadataValue_from_signed(type, v) ==
    CASE type = "Vec<String>" -> MVStrings(v)
      [] type = "u64" -> MVSignedInt(as_i64(v))
      [] type = "f64" -> MVFloat(v)
      [] type = "MprisDuration" -> MVSignedInt(i64_from_duration(v))
      [] type = "String" -> MVString(v)
      [] type = "TrackID" -> MVString(v.path)

\* MetadataValue::from(v)
MetadataValue_from(type, v) ==
    CASE type = "Vec<String>" -> MVStrings(v)
      [] type = "u64" -> MVUnsignedInt(v)
      [] type = "f64" -> MVFloat(v)
      [] type = "MprisDuration" -> MVSignedInt(i64_from_duration(v))
      [] type = "String" -> MVString(v)
      [] type = "TrackID" -> MVString(v.path)

\* RawMetadata = HashMap<String, MetadataValue>: the value under each key, if
\* any.
EmptyRaw == [k \in AllKeys |-> None]

raw_is_empty(raw) == \A k \in AllKeys : raw[k] = None

contains_key(raw, k) == raw[k] # None

\* The map after each well-known key was removed from it.
Remaining(raw) == [k \in AllKeys |-> IF k \in WellKnown THEN None ELSE raw[k]]

Metadata_new == [fields |-> [k \in WellKnown |-> None], others |-> EmptyRaw]

Metadata_is_empty(self) == (\A k \in WellKnown : self.fields[k] = None) /\ raw_is_empty(self.others)

\* from_raw_lossy leaving the keys it read in the map.
Metadata_from_raw_lossy_keeps_keys(raw) ==
    [fields |-> [k \in WellKnown |->
                    IF raw[k] = None THEN None
                    ELSE OkOrNone(TypeTryFrom(FieldType(k), Unwrap(raw[k])))],
     others |-> raw]

Metadata_from_raw_lossy(raw) ==
    [fields |-> [k \in WellKnown |->
                    IF raw[k] = None THEN None
                    ELSE OkOrNone(TypeTryFrom(FieldType(k), Unwrap(raw[k])))],
     others |-> Remaining(raw)]

\* From<Metadata> for RawMetadata
RawMetadata_from(value) ==
    [k \in AllKeys |->
        IF k \in WellKnown /\ IsSome(value.fields[k])
        THEN Some(MetadataValue_from(FieldType(k), Unwrap(value.fields[k])))
        ELSE value.others[k]]

\* The fields are built in the order of the struct; the first that fails
\* ends the construction with its error.
Metadata_build(raw) ==
    LET conv(k) == TypeTryFrom(FieldType(k), Unwrap(raw[k]))
        failed == {i \in 1..Len(FieldOrder) :
                     raw[FieldOrder[i]] # None /\ IsErr(conv(FieldOrder[i]))}
    IN IF failed # {}
       THEN LET i == CHOOSE i \in failed : \A j \in failed : i <= j
            IN Err(<<conv(FieldOrder[i])[2], "for", FieldOrder[i]>>)
       ELSE Ok([fields |-> [k \in WellKnown |->
                               IF raw[k] = None THEN None ELSE Some(conv(k)[2])],
                others |-> Remaining(raw)])

\* TryFrom<RawMetadata> without the test for mpris:trackid.
Metadata_try_from_any(raw) ==
    IF raw_is_empty(raw) THEN Ok(Metadata_new) ELSE Metadata_build(raw)

\* TryFrom<RawMetadata> for Metadata
Metadata_try_from(raw) ==
    IF raw_is_empty(raw) THEN Ok(Metadata_new)
    ELSE IF ~contains_key(raw, "mpris:trackid")
         THEN Err("metadata doesn't contain the mpris:trackid key")
         ELSE Metadata_build(raw)

\* derive(PartialEq): floats compare as f64 does, all else structurally.
MetadataValue_eq(a, b) ==
    IF a[1] = "Float" /\ b[1] = "Float" THEN f64_eq(a[2], b[2]) ELSE a = b

Option_eq(a, b, float) ==
    IF a = None \/ b = None THEN a = None /\ b = None
    ELSE IF float THEN f64_eq(Unwrap(a), Unwrap(b)) ELSE a = b

Metadata_eq(a, b) ==
    /\ \A k \in WellKnown : Option_eq(a.fields[k], b.fields[k], FieldType(k) = "f64")
    /\ \A k \in AllKeys :
         IF a.others[k] = None \/ b.others[k] = None
         THEN a.others[k] = None /\ b.others[k] = None
         ELSE MetadataValue_eq(Unwrap(a.others[k]), Unwrap(b.others[k]))

\* The values a raw map is filled with.
RawValues ==
    {MVBoolean(TRUE), MVFloat(F64(1)), MVFloat(NaN), MVSignedInt(-1), MVSignedInt(1),
     MVUnsignedInt(I64_MAX + 1), MVString(<<"/", "x">>), MVString(ReservedPrefix),
     MVStrings(<<>>), MVStrings(<<<<"x">>>>), MVStrings(<<<<"x">>, <<"x">>>>),
     MVUnsupported}

\* The raw maps of at most n keys: a set of keys and a value for each.
KeySets(n) == {K \in SUBSET AllKeys : Cardinality(K) <= n}

RawOf(K, f) == [k \in AllKeys |-> IF k \in K THEN Some(f[k]) ELSE None]

\* The values of each field, and the Metadata values built from them: others
\* is a public field and holds any key.
FieldValues(key) ==
    CASE key = "xesam:artist" -> {<<>>, <<<<"x">>>>}
      [] key = "xesam:audioBPM" -> {0, U64_MAX}
      [] key = "xesam:autoRating" -> {F64(1), NaN}
      [] key = "mpris:length" -> {MprisDuration(0), MprisDuration(MAX)}
      [] key = "xesam:title" -> {<<>>, <<"x">>}
      [] key = "mpris:trackid" -> {no_track, TrackID(<<"/", "x">>)}

FieldOptions(key) == {None} \cup {Some(v) : v \in FieldValues(key)}

MetadataOf(artists, audio_bpm, auto_rating, length, title, track_id, others) ==
    [fields |-> [k \in WellKnown |->
                    CASE k = "xesam:artist" -> artists
                      [] k = "xesam:audioBPM" -> audio_bpm
                      [] k = "xesam:autoRating" -> auto_rating
                      [] k = "mpris:length" -> length
                      [] k = "xesam:title" -> title
                      [] k = "mpris:trackid" -> track_id],
     others |-> others]

MetadataInit == ValueInit("Metadata")

Metadata_TryFrom ==
    /\ Fresh("Metadata")
    /\ \E K \in KeySets(MaxKeys) : \E f \in [K -> RawValues] :
         LET raw == RawOf(K, f)
         IN Apply([fn |-> "try_from", input |-> raw, result |-> Metadata_try_from(raw)])

Metadata_FromRawLossy ==
    /\ Fresh("Metadata")
    /\ \E K \in KeySets(MaxKeys) : \E f \in [K -> RawValues] :
         LET raw == RawOf(K, f)
         IN Apply([fn |-> "from_raw_lossy", input |-> raw,
                   result |-> Metadata_from_raw_lossy(raw)])

\* Metadata into RawMetadata and strictly back.
Metadata_BackAndForth ==
    /\ Fresh("Metadata")
    /\ \E artists \in FieldOptions("xesam:artist"),
          audio_bpm \in FieldOptions("xesam:audioBPM"),
          auto_rating \in FieldOptions("xesam:autoRating"),
          length \in FieldOptions("mpris:length"),
          title \in FieldOptions("xesam:title"),
          track_id \in FieldOptions("mpris:trackid"),
          K \in KeySets(1) :
         \E f \in [K -> RawValues] :
            LET m == MetadataOf(artists, audio_bpm, auto_rating, length, title, track_id,
                                RawOf(K, f))
            IN Apply([fn |-> "back_and_forth", input |-> m,
                      result |-> Metadata_try_from(RawMetadata_from(m))])

MetadataNext ==
    \/ Metadata_TryFrom
    \/ Metadata_FromRawLossy
    \/ Metadata_BackAndForth

MetadataSpec == MetadataInit /\ [][MetadataNext]_vars

\* ------------------------------------------------------- one cycle on its own
\* read_events of either iterator run once, on any batch the transport can
\* hand over and with any answers to the two queries: the batch need not end
\* at a PlayerQuit, and a query may be answered after one (by the next
\* owner of the bus name).
RECURSIVE BatchesUpTo(_, _)
BatchesUpTo(notifications, n) ==
    IF n = 0 THEN {<<>>}
    ELSE LET shorter == BatchesUpTo(notifications, n - 1)
         IN shorter \cup {Append(b, e) : b \in {x \in shorter : Len(x) = n - 1},
                                         e \in notifications}

CycleNotifications ==
    {NPlayerQuit, NPlayerPropertiesChanged, NSeeked(1), NSeeked(2),
     NTrackListPropertiesChanged, NTrackListReplaced(<<"B">>),
     NTrackAdded(NoTrack, TrackMeta(Some("B"), "t1")), NTrackRemoved("A"),
     NTrackMetadataChanged("A", TrackMeta(Some("B"), "t2"))}

\* The retained and the fetched Progress: equal, a shuffle apart, or a
\* volume apart by less than EPSILON or by EPSILON.
CycleProgresses ==
    {BaseProgress, [BaseProgress EXCEPT !.shuffle = TRUE],
     [BaseProgress EXCEPT !.current_volume = 1], [BaseProgress EXCEPT !.current_volume = 2]}

CycleProgressAnswers == {QueryOk(p) : p \in CycleProgresses} \cup {QueryErr}

CycleTrackListAnswers == {QueryOk(Some(TrackListFrom(<<"A", "B">>))), QueryOk(None), QueryErr}

CycleInit ==
    /\ kind \in {"PlayerEvents::read_events", "PlayerWatcher::read_events"}
    /\ player = Some(1)
    /\ last_progress \in {Some(p) : p \in CycleProgresses}
    /\ track_list \in {None, Some(TrackListFrom(<<"A">>))}
    /\ buffer = <<>>
    /\ op = None
    /\ pc = "wait"
    /\ alive = TRUE /\ gen = 1 /\ cur = BaseProgress /\ tracks = None
    /\ pending = <<>> /\ budget = 0 /\ notes = 0
    /\ hist = <<>> /\ ret = None /\ cycle = None /\ quit_in_wait = FALSE

\* read_events returned r on the batch.
Ran(batch, from_player, get_track_list, r) ==
    /\ buffer' = r.self.buffer
    /\ last_progress' = r.self.last_progress
    /\ track_list' = r.self.track_list
    /\ player' = r.self.player
    /\ op' = Some([before |-> Self, batch |-> batch, from_player |-> from_player,
                   get_track_list |-> get_track_list, result |-> r.result, quit |-> r.quit,
                   progress_queries |-> r.progress_queries,
                   track_list_queries |-> r.track_list_queries])
    /\ UNCHANGED <<kind, pc, alive, gen, cur, tracks, pending, budget, notes, hist, ret,
                   cycle, quit_in_wait>>

Cycle_PlayerEvents ==
    /\ Fresh("PlayerEvents::read_events")
    /\ \E batch \in BatchesUpTo(CycleNotifications, MaxBatch),
          from_player \in CycleProgressAnswers, get_track_list \in CycleTrackListAnswers :
         Ran(batch, from_player, get_track_list,
             PlayerEvents_read_events(Self, batch, from_player, get_track_list))

Cycle_PlayerWatcher ==
    /\ Fresh("PlayerWatcher::read_events")
    /\ \E batch \in BatchesUpTo(CycleNotifications, MaxBatch),
          from_player \in CycleProgressAnswers, get_track_list \in CycleTrackListAnswers :
         Ran(batch, from_player, get_track_list,
             PlayerWatcher_read_events(Self, batch, from_player, get_track_list))

CycleNext ==
    \/ Cycle_PlayerEvents
    \/ Cycle_PlayerWatcher

CycleSpec == CycleInit /\ [][CycleNext]_vars

\* ------------------------------------------------------- PlayerEvents to the end
\* PlayerEvents with a player that stops running in the end: when it has
\* nothing more to send (its steps or its notifications are spent) it leaves the bus, and its
\* handle gets the PlayerQuit notification.
LiveInit == Init /\ kind = "PlayerEvents"

PlayerStops ==
    /\ kind = "PlayerEvents" /\ alive /\ (budget = 0 \/ notes = 0)
    /\ alive' = FALSE
    /\ pending' = IF Tracked THEN Append(pending, NPlayerQuit) ELSE pending
    /\ quit_in_wait' = (quit_in_wait \/ (Tracked /\ pc = "wait"))
    /\ UNCHANGED <<kind, gen, cur, tracks, budget, notes, iter_vars, op>>

LiveNext ==
    \/ PlayerChangesProperty
    \/ PlayerSeeks
    \/ PlayerAddsTrack
    \/ PlayerRemovesTrack
    \/ PlayerReplacesTrackList
    \/ PlayerChangesTrackMetadata
    \/ PlayerChangesTrackListProperty
    \/ PlayerQuits
    \/ PlayerStops
    \/ PlayerEvents_next
    \/ PlayerEvents_wake

\* The wait of process_events_blocking_until_received ends once a
\* notification is queued, and the player stops running in the end.
LiveSpec ==
    /\ LiveInit /\ [][LiveNext]_vars
    /\ WF_vars(PlayerEvents_wake)
    /\ WF_vars(PlayerQuits \/ PlayerStops)

\* ------------------------------------------------------- properties
IsPrefix(a, b) == Len(a) <= Len(b) /\ SubSeq(b, 1, Len(a)) = a

Count(seq, e) == Cardinality({i \in 1..Len(seq) : seq[i] = e})

OfKinds(seq, kinds) == SelectSeq(seq, LAMBDA e : Kind(e) \in kinds)

StatusKinds == {"Playing", "Paused", "Stopped"}

DiffKinds ==
    StatusKinds \cup {"LoopingChanged", "ShuffleToggled", "VolumeChanged",
                      "PlaybackRateChanged", "TrackChanged"}

\* The last derivation cycle, when there was one.
Cyc == Unwrap(cycle)

\* The last cycle ran to its end: no early return for a quit or an error.
FullCycle == IsSome(cycle) /\ Cyc.result = <<"Ok">> /\ ~Cyc.quit

\* The events next() yielded since the last cycle started.
SinceCycle == SubSeq(hist, Cyc.at + 1, Len(hist))

\* C1 as stated: after a cycle of PlayerEvents drained a PlayerQuit, the very
\* next value next() returns is PlayerShutDown and no other event is yielded
\* (the call after it returns None), whatever the batch queued before the quit.
C1_ShutDownIsNextValue ==
    (kind = "PlayerEvents" /\ IsSome(cycle) /\ Cyc.quit) =>
        /\ Len(SinceCycle) <= 1
        /\ Len(SinceCycle) = 1 => SinceCycle[1] = PlayerShutDown

\* C1 amended: after a cycle of PlayerEvents drained a PlayerQuit,
\* PlayerShutDown is the last event that cycle queued; the events the batch
\* queued before it are yielded first, in their order, then PlayerShutDown,
\* and every return of next() after PlayerShutDown is None (None is returned
\* only once the buffer is empty).
C1_ShutDownAfterQueuedEvents ==
    (kind = "PlayerEvents" /\ IsSome(cycle) /\ Cyc.quit) =>
        /\ Cyc.events # <<>>
        /\ Cyc.events[Len(Cyc.events)] = PlayerShutDown
        /\ Count(Cyc.events, PlayerShutDown) = 1
        /\ SinceCycle \o buffer = Cyc.events
        /\ pc = "idle"
        /\ ret = Some(RetNone) => buffer = <<>>
        /\ buffer = <<>> => ret \in {Some(RetOk(PlayerShutDown)), Some(RetNone)}

C1_Witness ==
    /\ kind = "PlayerEvents" /\ IsSome(cycle) /\ Cyc.quit
    /\ Len(Cyc.events) >= 2
    /\ SinceCycle = Cyc.events
    /\ ret = Some(RetNone)

\* Both iterators yield the buffered events in the order they were
\* appended, one per return of next(): the stream "yielded events, then
\* buffer" only ever grows at its end, a return with a non-empty buffer pops
\* its head and runs no cycle (nothing is drained or appended), and next()
\* blocks only on an empty buffer.
C2_Step ==
    /\ IsPrefix(hist \o buffer, hist' \o buffer')
    /\ Len(hist') <= Len(hist) + 1
    /\ (buffer # <<>> /\ <<hist, ret, pc>> # <<hist', ret', pc'>>) =>
           /\ hist' = Append(hist, Head(buffer))
           /\ buffer' = Tail(buffer)
           /\ ret' = Some(RetOk(Head(buffer)))
           /\ pending' = pending /\ cycle' = cycle /\ pc' = "idle"
    /\ cycle' # cycle => buffer = <<>>
    /\ pc' # "idle" => buffer' = <<>>

\* C2: every step of either iterator is a first-in first-out step: it yields
\* at most one event, the head of the buffer, and runs a cycle only on an
\* empty buffer.
C2_Fifo == [][C2_Step]_vars

C2_Witness ==
    /\ IsSome(cycle) /\ Len(Cyc.events) >= 3
    /\ SinceCycle = Cyc.events
    /\ buffer = <<>>

\* C3: PlayerEvents: when the player was running as next() blocked and quit
\* during the wait, PlayerShutDown is yielded exactly once, as the last
\* event, before next() returns None.
C3_QuitWhileBlockedYieldsShutDown ==
    (kind = "PlayerEvents" /\ quit_in_wait /\ ret = Some(RetNone)) =>
        /\ Count(hist, PlayerShutDown) = 1
        /\ hist[Len(hist)] = PlayerShutDown

\* C4: PlayerWatcher::next never returns None.
C4_WatcherNeverNone == kind = "PlayerWatcher" => ret # Some(RetNone)

\* The tracked player is gone, the caller called next() again, and next()
\* blocks waiting for a new player.
C4_Witness ==
    /\ kind = "PlayerWatcher" /\ pc = "find" /\ ~alive
    /\ hist # <<>> /\ hist[Len(hist)] = PlayerShutDown

\* C5: PlayerWatcher: right after next() attached to a player that appeared
\* (it returned PlayerStart and the player is still there), the retained
\* Progress is present, and so is the track list when the player has one.
C5_AttachInitializes ==
    (kind = "PlayerWatcher" /\ pc = "idle" /\ ret = Some(RetOk(PlayerStart)) /\ Tracked) =>
        /\ IsSome(last_progress)
        /\ IsSome(tracks) => IsSome(track_list)

C7_FirstProgressEmitsAll ==
    (kind = "PlayerWatcher" /\ FullCycle /\ IsSome(Cyc.fetched)) =>
        LET p == Unwrap(Cyc.fetched)
        IN /\ Cyc.retained = Cyc.fetched
           /\ Cyc.prev = None =>
                  OfKinds(Cyc.events, DiffKinds) =
                      << <<p.playback_status>>, LoopingChanged(p.loop_status),
                         ShuffleToggled(p.shuffle), VolumeChanged(p.current_volume),
                         PlaybackRateChanged(p.playback_rate), TrackChanged(p.metadata) >>
           /\ Cyc.prev = Cyc.fetched => OfKinds(Cyc.events, DiffKinds) = <<>>

C7_Witness ==
    /\ kind = "PlayerWatcher" /\ FullCycle /\ IsSome(Cyc.fetched)
    /\ Cyc.prev = None
    /\ Len(Cyc.events) = 6

\* The place of a diff event in the order of the detect_* calls.
DiffRank(e) ==
    CASE Kind(e) \in StatusKinds -> 1
      [] Kind(e) = "LoopingChanged" -> 2
      [] Kind(e) = "ShuffleToggled" -> 3
      [] Kind(e) = "VolumeChanged" -> 4
      [] Kind(e) = "PlaybackRateChanged" -> 5
      [] Kind(e) = "TrackChanged" -> 6

\* The event a notification yields whatever the mirror holds.
Direct(n) ==
    CASE Kind(n) = "Seeked" -> <<Seeked(n[2])>>
      [] Kind(n) = "TrackRemoved" -> <<TrackRemoved(n[2])>>
      [] Kind(n) = "TrackListReplaced" -> <<TrackListReplaced>>
      [] Kind(n) = "TrackAdded" ->
            IF IsSome(n[3].track_id) THEN <<TrackAdded(Unwrap(n[3].track_id))>> ELSE <<>>
      [] OTHER -> <<>>

RECURSIVE DirectAll(_)
DirectAll(batch) ==
    IF batch = <<>> THEN <<>> ELSE Direct(Head(batch)) \o DirectAll(Tail(batch))

\* C8: the events one full cycle appends are, in this order: the events of
\* the drained notifications in the order of the batch, then the events of
\* the Progress diff in the order playback status, loop status, shuffle,
\* volume, playback rate, track changed (each at most once), then the
\* TrackListReplaced of a reconciliation.
C8_CycleEventOrder ==
    FullCycle =>
        LET ev == Cyc.events
            N == Len(ev)
            direct == OfKinds(ev, {"Seeked", "TrackRemoved", "TrackListReplaced",
                                   "TrackAdded"})
        IN /\ \A i, j \in 1..N :
                  (i < j /\ Kind(ev[i]) \in DiffKinds) =>
                      /\ Kind(ev[j]) \in DiffKinds => DiffRank(ev[i]) < DiffRank(ev[j])
                      /\ Kind(ev[j]) \in DiffKinds \cup {"TrackListReplaced"}
                      /\ ev[j] = TrackListReplaced => j = N
           /\ \/ direct = DirectAll(Cyc.batch)
              \/ /\ direct = DirectAll(Cyc.batch) \o <<TrackListReplaced>>
                 /\ ev[N] = TrackListReplaced

\* The PropertiesChanged came first in the batch, and yet the Seeked event
\* precedes the diff events, which precede the reconciliation's event.
C8_Witness ==
    /\ FullCycle
    /\ Len(Cyc.batch) = 2 /\ Cyc.batch[1] = NPlayerPropertiesChanged
    /\ Kind(Cyc.batch[2]) = "Seeked"
    /\ Len(Cyc.events) = 3
    /\ Kind(Cyc.events[1]) = "Seeked"
    /\ Kind(Cyc.events[2]) = "ShuffleToggled"
    /\ Cyc.events[3] = TrackListReplaced

\* C9: a full cycle that fetches a Progress while one is retained appends the
\* event of the new playback status (once) iff it differs from the retained
\* status; from Stopped to Playing with nothing else changed, Playing is all
\* it appends.
C9_PlaybackStatusEvent ==
    (FullCycle /\ IsSome(Cyc.fetched) /\ IsSome(Cyc.prev)) =>
        LET q == Unwrap(Cyc.prev)
            p == Unwrap(Cyc.fetched)
        IN /\ OfKinds(Cyc.events, StatusKinds) =
                  IF q.playback_status # p.playback_status
                  THEN << <<p.playback_status>> >> ELSE <<>>
           /\ ( /\ Cyc.batch = <<NPlayerPropertiesChanged>>
                /\ q.playback_status = "Stopped"
                /\ p = [q EXCEPT !.playback_status = "Playing"] )
              => Cyc.events = <<Playing>>

C9_Witness ==
    /\ kind = "PlayerEvents" /\ FullCycle /\ IsSome(Cyc.fetched)
    /\ Cyc.batch = <<NPlayerPropertiesChanged>>
    /\ Unwrap(Cyc.prev).playback_status = "Stopped"
    /\ Unwrap(Cyc.fetched) = [Unwrap(Cyc.prev) EXCEPT !.playback_status = "Playing"]
    /\ Cyc.events = <<Playing>>

\* C10 as stated: a full cycle of PlayerEvents that fetches a Progress
\* appends TrackChanged iff track id, url or title differ from the retained
\* metadata.
C10_TrackChangedIdUrlTitle ==
    (kind = "PlayerEvents" /\ FullCycle /\ IsSome(Cyc.fetched)) =>
        LET old == Unwrap(Cyc.prev).metadata
            new == Unwrap(Cyc.fetched).metadata
        IN (OfKinds(Cyc.events, {"TrackChanged"}) # <<>>)
               <=> (\/ old.track_id # new.track_id
                    \/ old.url # new.url
                    \/ old.title # new.title)

\* C10 amended: a full cycle of PlayerEvents that fetches a Progress appends
\* TrackChanged (once, with the new metadata) iff track id, url, title or
\* artists differ from the retained metadata.
C10_TrackChangedIncludesArtists ==
    (kind = "PlayerEvents" /\ FullCycle /\ IsSome(Cyc.fetched)) =>
        LET old == Unwrap(Cyc.prev).metadata
            new == Unwrap(Cyc.fetched).metadata
        IN OfKinds(Cyc.events, {"TrackChanged"}) =
               IF \/ old.track_id # new.track_id
                  \/ old.url # new.url
                  \/ old.title # new.title
                  \/ old.artists # new.artists
               THEN <<TrackChanged(new)>> ELSE <<>>

\* Only the artists changed, and TrackChanged was appended.
C10_Witness ==
    /\ kind = "PlayerEvents" /\ FullCycle /\ IsSome(Cyc.fetched)
    /\ Unwrap(Cyc.fetched).metadata =
           [Unwrap(Cyc.prev).metadata EXCEPT !.artists = "a2"]
    /\ Unwrap(Cyc.prev).metadata.artists = "a1"
    /\ Cyc.events = <<TrackChanged(Unwrap(Cyc.fetched).metadata)>>

\* A full cycle that fetched a Progress while one was retained.
DiffCycle == FullCycle /\ IsSome(Cyc.fetched) /\ IsSome(Cyc.prev)

\* The events the diff block of each iterator appends to an empty buffer for
\* the retained Progress q and the fetched Progress p.
PlayerEvents_diff_events(q, p) ==
    PlayerEvents_diff([buffer |-> <<>>, last_progress |-> Some(q), track_list |-> None],
                      p).self.buffer

PlayerWatcher_diff_events(q, p) ==
    PlayerWatcher_diff([player |-> Some(1), buffer |-> <<>>, last_progress |-> Some(q),
                        track_list |-> None], p).self.buffer

\* C11: for the retained and the fetched Progress of any cycle, PlayerEvents
\* and PlayerWatcher derive the same diff events (the same TrackChanged
\* decision in particular).
C11_SameDiffPolicy ==
    DiffCycle =>
        LET q == Unwrap(Cyc.prev)
            p == Unwrap(Cyc.fetched)
        IN PlayerEvents_diff_events(q, p) = PlayerWatcher_diff_events(q, p)

C13_Step ==
    cycle' # cycle =>
        LET c == Unwrap(cycle')
        IN ( /\ c.result = <<"Ok">> /\ ~c.quit
             /\ IsSome(c.fetched) /\ IsSome(c.prev)
             /\ Unwrap(c.prev).shuffle # Unwrap(c.fetched).shuffle
             /\ IsSome(c.mirror_before) )
           => /\ IsSome(tracks') /\ IsSome(c.mirror_after)
              /\ Unwrap(c.mirror_after).ids = Unwrap(tracks')
              /\ track_list' = c.mirror_after
              /\ c.events[Len(c.events)] = TrackListReplaced
              /\ \E i \in 1..(Len(c.events) - 1) :
                    c.events[i] = ShuffleToggled(Unwrap(c.fetched).shuffle)

\* C13: every step of either iterator reconciles the mirror when the shuffle
\* flag changed.
C13_ShuffleForcesReconciliation == [][C13_Step]_vars

\* Only a PropertiesChanged was drained, the shuffle flag had changed, and the
\* mirror was replaced by a list that differs from the one it held.
C13_Witness ==
    /\ DiffCycle
    /\ Cyc.batch = <<NPlayerPropertiesChanged>>
    /\ Unwrap(Cyc.prev).shuffle # Unwrap(Cyc.fetched).shuffle
    /\ IsSome(Cyc.mirror_before) /\ IsSome(Cyc.mirror_after)
    /\ Unwrap(Cyc.mirror_after).ids # Unwrap(Cyc.mirror_before).ids
    /\ Cyc.events = <<ShuffleToggled(Unwrap(Cyc.fetched).shuffle), TrackListReplaced>>

\* C14: a full cycle whose batch is one TrackListReplaced{ids} appends exactly
\* one event, TrackListReplaced; an existing mirror then has the ordering
\* ids, whatever its metadata cache held, and an absent mirror stays absent.
C14_TrackListReplacedNotification ==
    (FullCycle /\ Len(Cyc.batch) = 1 /\ Kind(Cyc.batch[1]) = "TrackListReplaced") =>
        /\ Cyc.events = <<TrackListReplaced>>
        /\ IF IsSome(Cyc.mirror_before)
           THEN IsSome(Cyc.mirror_after) /\ Unwrap(Cyc.mirror_after).ids = Cyc.batch[1][2]
           ELSE Cyc.mirror_after = None

\* The mirror had learned a track's metadata and held another ordering.
C14_Witness ==
    /\ FullCycle /\ Len(Cyc.batch) = 1 /\ Kind(Cyc.batch[1]) = "TrackListReplaced"
    /\ IsSome(Cyc.mirror_before)
    /\ \E id \in TrackIds : IsSome(Unwrap(Cyc.mirror_before).metadata_cache[id])
    /\ Unwrap(Cyc.mirror_before).ids # Cyc.batch[1][2]
    /\ Len(Cyc.batch[1][2]) = MaxTracks
    /\ Unwrap(Cyc.mirror_after).ids = Cyc.batch[1][2]

\* The mirror after the edit of one notification.
Applied(m, n) ==
    CASE Kind(n) = "TrackListReplaced" -> TrackList_replace(m, TrackListFrom(n[2]))
      [] Kind(n) = "TrackAdded" -> TrackList_insert(m, n[2], n[3])
      [] Kind(n) = "TrackRemoved" -> TrackList_remove(m, n[2])
      [] Kind(n) = "TrackMetadataChanged" -> TrackList_replace_track_metadata(m, n[2], n[3]).list
      [] OTHER -> m

RECURSIVE AppliedAll(_, _)
AppliedAll(m, batch) ==
    IF batch = <<>> THEN m ELSE AppliedAll(Applied(m, Head(batch)), Tail(batch))

\* The notifications an erroring cycle c went through before the query that
\* failed: those ahead of the first PropertiesChanged when the Progress query
\* failed, the whole batch when the track list query did.
Processed(c) ==
    LET first == {i \in 1..Len(c.batch) :
                     /\ c.batch[i] = NPlayerPropertiesChanged
                     /\ \A j \in 1..(i - 1) : c.batch[j] # NPlayerPropertiesChanged}
    IN IF c.fetched = None /\ first # {}
       THEN SubSeq(c.batch, 1, (CHOOSE i \in first : TRUE) - 1)
       ELSE c.batch

C15_Step ==
    /\ cycle' # cycle =>
          LET c == Unwrap(cycle')
          IN c.result # <<"Ok">> =>
                /\ ret' = Some(c.result)
                /\ pc' = "idle"
                /\ hist' = hist
                /\ buffer' = c.events
                /\ track_list' = c.mirror_after
                /\ c.mirror_after =
                       IF IsSome(c.mirror_before)
                       THEN Some(AppliedAll(Unwrap(c.mirror_before), Processed(c)))
                       ELSE None
    /\ ( /\ kind = "PlayerEvents" /\ pc = "idle" /\ Tracked
         /\ IsSome(ret) /\ Unwrap(ret)[1] = "Err"
         /\ <<pc', ret', hist'>> # <<pc, ret, hist>> )
       => /\ ret' # Some(RetNone)
          /\ buffer = <<>> => pc' = "wait"

\* C15: a cycle in which a query fails makes next() return Some(Err(..)) and
\* keeps the mirror edits (and the queued events) of the notifications it
\* went through before the failure; after the error, a call of
\* PlayerEvents::next on a running player does not end the iteration: it
\* yields what is queued or blocks for the next cycle.
C15_ErrorKeepsEditsAndGoesOn == [][C15_Step]_vars

\* A cycle failed after an edit of the mirror; the event of that edit was
\* yielded after the error and next() blocks for the next cycle.
C15_Witness ==
    /\ kind = "PlayerEvents" /\ IsSome(cycle) /\ Cyc.result # <<"Ok">>
    /\ IsSome(Cyc.mirror_before)
    /\ Unwrap(Cyc.mirror_after).ids # Unwrap(Cyc.mirror_before).ids
    /\ track_list = Cyc.mirror_after
    /\ Len(Cyc.events) = 1 /\ SinceCycle = Cyc.events
    /\ pc = "wait"

\* C16: with a tracked player, the mirror is present iff the player has a
\* track list.
C16_TrackListIffSupported ==
    (Tracked /\ pc = "idle") => (IsSome(track_list) <=> IsSome(tracks))

\* C17: with a tracked player and a mirror, once every notification was
\* drained and no cycle failed, the mirror's ordering is the player's list.
C17_MirrorUpToDate ==
    ( /\ Tracked /\ pending = <<>> /\ IsSome(track_list)
      /\ IsSome(cycle) => Cyc.clean )
    => /\ IsSome(tracks)
       /\ Unwrap(track_list).ids = Unwrap(tracks)

\* ------------------------------------------------------- the mirror's edits
\* The arm run last on its own, and the mirror before and after it.
Op == Unwrap(op)

OpIs(k) == kind = "TrackList" /\ IsSome(op) /\ IsSome(Op.before) /\ Kind(Op.note) = k

MirrorBefore == Unwrap(Op.before)

MirrorAfter == Unwrap(track_list)

\* The positions of id in an ordering, and whether i is the first of them.
Occurrences(ids, id) == {i \in 1..Len(ids) : ids[i] = id}

IsFirst(ids, id, i) == i \in Occurrences(ids, id) /\ \A j \in Occurrences(ids, id) : i <= j

\* The mirror after the same notification is handled once more.
Again == MatchEvent(Locals([buffer |-> <<>>, track_list |-> track_list]), Op.note,
                    QueryErr).track_list

RemovesFirst ==
    LET id == Op.note[2]
        old == MirrorBefore.ids
        new == MirrorAfter.ids
    IN /\ buffer = <<TrackRemoved(id)>>
       /\ IF Occurrences(old, id) = {}
          THEN MirrorAfter = MirrorBefore
          ELSE /\ \A i \in 1..Len(old) :
                     IsFirst(old, id, i) =>
                        new = SubSeq(old, 1, i - 1) \o SubSeq(old, i + 1, Len(old))
               /\ MirrorAfter.metadata_cache =
                      [MirrorBefore.metadata_cache EXCEPT ![id] = None]

\* C19 as stated: remove(id) takes out the first occurrence, and remove(id)
\* once more changes nothing.
C19_RemoveIdempotent ==
    OpIs("TrackRemoved") => (RemovesFirst /\ Again = track_list)

\* C19 amended: remove(id) takes out the first occurrence; remove(id) once
\* more changes nothing when the ordering held id at most once, and takes
\* out the next occurrence otherwise.
C19_RemoveFirstOccurrence ==
    OpIs("TrackRemoved") =>
        /\ RemovesFirst
        /\ IF Cardinality(Occurrences(MirrorBefore.ids, Op.note[2])) <= 1
           THEN Again = track_list
           ELSE Len(Unwrap(Again).ids) = Len(MirrorAfter.ids) - 1

\* An id whose metadata the mirror had learned was removed from between two
\* others.
C19_Witness ==
    /\ OpIs("TrackRemoved")
    /\ Len(MirrorBefore.ids) = 3
    /\ Op.note[2] = MirrorBefore.ids[2]
    /\ Occurrences(MirrorBefore.ids, Op.note[2]) = {2}
    /\ IsSome(MirrorBefore.metadata_cache[Op.note[2]])
    /\ MirrorAfter.ids = <<MirrorBefore.ids[1], MirrorBefore.ids[3]>>

\* C20: replace_track_metadata(old_id, M): when the ordering holds old_id,
\* the id at its (first) position becomes the track id of M (old_id itself
\* when M has none), the length and the other positions stay, M is stored
\* for the resulting id, and that id is returned (the arm pushes
\* TrackMetadataChanged with it); when old_id is unknown the mirror is
\* unchanged and nothing is returned (no event).
C20_ReplaceTrackMetadata ==
    OpIs("TrackMetadataChanged") =>
        LET old_id == Op.note[2]
            M == Op.note[3]
            old == MirrorBefore.ids
            new == MirrorAfter.ids
            new_id == IF IsSome(M.track_id) THEN Unwrap(M.track_id) ELSE old_id
        IN IF Occurrences(old, old_id) = {}
           THEN MirrorAfter = MirrorBefore /\ buffer = <<>>
           ELSE /\ Len(new) = Len(old)
                /\ \A i \in 1..Len(old) :
                      IF IsFirst(old, old_id, i) THEN new[i] = new_id ELSE new[i] = old[i]
                /\ MirrorAfter.metadata_cache[new_id] = Some(M)
                /\ buffer = <<TrackMetadataChanged(old_id, new_id)>>

\* The id in the middle of three was renamed.
C20_Witness ==
    /\ OpIs("TrackMetadataChanged") /\ IsSome(Op.note[3].track_id)
    /\ Len(MirrorBefore.ids) = 3
    /\ Op.note[2] = MirrorBefore.ids[2]
    /\ Unwrap(Op.note[3].track_id) \notin
           {MirrorBefore.ids[1], MirrorBefore.ids[2], MirrorBefore.ids[3]}
    /\ MirrorAfter.ids = <<MirrorBefore.ids[1], Unwrap(Op.note[3].track_id),
                           MirrorBefore.ids[3]>>
    /\ buffer = <<TrackMetadataChanged(Op.note[2], Unwrap(Op.note[3].track_id))>>

\* ------------------------------------------------------- TrackID
\* C21: every candidate that starts with "/org/mpris" and is not NO_TRACK
\* fails to construct, by each constructor; NO_TRACK constructs, and gives
\* what no_track() returns; is_no_track() holds of a constructed TrackID
\* exactly when its path is NO_TRACK, which is exactly when the candidate was.
C21_ReservedPrefixRefused ==
    (kind = "TrackID" /\ IsSome(op)) =>
        /\ IsSome(Op.text) =>
              LET s == Unwrap(Op.text)
              IN /\ (starts_with(s, ReservedPrefix) /\ s # NO_TRACK) => IsErr(Op.result)
                 /\ s = NO_TRACK => Op.result = Ok(no_track)
        /\ IsOk(Op.result) =>
              /\ is_no_track(Op.result[2]) <=> Op.result[2].path = NO_TRACK
              /\ IsSome(Op.text) => (is_no_track(Op.result[2]) <=> Unwrap(Op.text) = NO_TRACK)
        /\ Op.fn = "no_track" => is_no_track(Op.result[2])

\* A well-formed object path under the reserved prefix was refused, by the
\* constructor that takes a well-formed path.
C21_Witness ==
    /\ kind = "TrackID" /\ IsSome(op)
    /\ Op.fn = "try_from_object_path"
    /\ starts_with(Op.input, ReservedPrefix)
    /\ Len(Op.input) > Len(ReservedPrefix)
    /\ IsObjectPath(Op.input)
    /\ IsErr(Op.result)

\* ------------------------------------------------------- MetadataValue integers
\* What the four conversions are to return on a value: the lossy ones an
\* Option, the strict ones a Result.
IsInteger(v) == v[1] \in {"SignedInt", "UnsignedInt"}

Negative(v) == v[1] = "SignedInt" /\ v[2] < 0

AboveI64(v) == v[1] = "UnsignedInt" /\ v[2] > I64_MAX

\* C25: into_u64 gives 0 for a negative value where u64::try_from fails;
\* into_i64 gives i64::MAX for an unsigned value above i64::MAX where
\* i64::try_from fails; on every other integer the lossy and the strict
\* conversion give the number itself; on the other variants the lossy ones
\* give None and the strict ones fail.
C25_IntegerCoercion ==
    (kind = "MetadataValue" /\ IsSome(op)) =>
        LET v == Op.input
        IN /\ Op.fn = "into_u64" =>
                 /\ Negative(v) => (Op.result = Some(0) /\ IsErr(u64_try_from(v)))
                 /\ (IsInteger(v) /\ ~Negative(v)) =>
                        (Op.result = Some(v[2]) /\ u64_try_from(v) = Ok(v[2]))
                 /\ ~IsInteger(v) => (Op.result = None /\ IsErr(u64_try_from(v)))
           /\ Op.fn = "u64::try_from" =>
                 /\ Negative(v) => (IsErr(Op.result) /\ into_u64(v) = Some(0))
                 /\ (IsInteger(v) /\ ~Negative(v)) =>
                        (Op.result = Ok(v[2]) /\ into_u64(v) = Some(v[2]))
                 /\ ~IsInteger(v) => (IsErr(Op.result) /\ into_u64(v) = None)
           /\ Op.fn = "into_i64" =>
                 /\ AboveI64(v) => (Op.result = Some(I64_MAX) /\ IsErr(i64_try_from(v)))
                 /\ (IsInteger(v) /\ ~AboveI64(v)) =>
                        (Op.result = Some(v[2]) /\ i64_try_from(v) = Ok(v[2]))
                 /\ ~IsInteger(v) => (Op.result = None /\ IsErr(i64_try_from(v)))
           /\ Op.fn = "i64::try_from" =>
                 /\ AboveI64(v) => (IsErr(Op.result) /\ into_i64(v) = Some(I64_MAX))
                 /\ (IsInteger(v) /\ ~AboveI64(v)) =>
                        (Op.result = Ok(v[2]) /\ into_i64(v) = Some(v[2]))
                 /\ ~IsInteger(v) => (IsErr(Op.result) /\ into_i64(v) = None)

\* The smallest signed value was coerced to u64.
C25_Witness ==
    /\ kind = "MetadataValue" /\ IsSome(op)
    /\ Op.fn = "into_u64"
    /\ Op.input = MVSignedInt(I64_MIN)
    /\ Op.result = Some(0)

\* ------------------------------------------------------- MprisDuration
\* C26: whatever constructors and operators were applied, a held duration is
\* within [0, i64::MAX]: + and * give the exact result or i64::MAX when it is
\* larger, - gives the exact result or 0 when it is negative, / gives the
\* quotient, the clamping constructors clamp, TryFrom<i64> fails exactly on
\* negative values and TryFrom<u64> exactly on values above i64::MAX.
C26_DurationInRange ==
    (kind = "MprisDuration" /\ IsSome(op)) =>
        LET x == Op.input
            exact(n) == Op.held = Some(MprisDuration(n))
        IN /\ IsSome(Op.held) => (0 <= Unwrap(Op.held).value /\ Unwrap(Op.held).value <= I64_MAX)
           /\ IsSome(Op.before) =>
                 LET a == Unwrap(Op.before).value
                 IN /\ Op.fn = "add" => exact(IF a + x > I64_MAX THEN I64_MAX ELSE a + x)
                    /\ Op.fn = "mul" => exact(IF a * x > I64_MAX THEN I64_MAX ELSE a * x)
                    /\ Op.fn = "sub" => exact(IF a - x < 0 THEN 0 ELSE a - x)
                    /\ (Op.fn = "div" /\ x # 0) => exact(a \div x)
           /\ Op.fn = "new_from_u64" => exact(IF x > I64_MAX THEN I64_MAX ELSE x)
           /\ Op.fn = "new_from_i64" =>
                 exact(IF x < 0 THEN 0 ELSE x)
           /\ Op.fn = "new_max" => exact(I64_MAX)
           /\ Op.fn = "try_from_i64" => IF x < 0 THEN Op.held = None ELSE exact(x)
           /\ Op.fn = "try_from_u64" => IF x > I64_MAX THEN Op.held = None ELSE exact(x)

\* A sum above i64::MAX was asked of a duration that came out of an earlier
\* operator.
C26_Witness ==
    /\ kind = "MprisDuration" /\ IsSome(op)
    /\ Op.fn = "add" /\ IsSome(Op.before)
    /\ Unwrap(Op.before).value \notin {0, I64_MAX}
    /\ Unwrap(Op.before).value + Op.input > U64_MAX
    /\ Op.held = Some(MprisDuration(I64_MAX))

\* ------------------------------------------------------- Metadata
\* The values a field of each type is built from, and what it then holds:
\* a String from a String or a list of one, a Vec<String> from a list or a
\* String, a u64 from an integer that is not negative, an f64 from a Float,
\* an MprisDuration from an integer within [0, i64::MAX], a TrackID from a
\* single string that is an object path outside the reserved prefix or
\* NO_TRACK.
Single(v) == v[1] = "String" \/ (v[1] = "Strings" /\ Len(v[2]) = 1)

TheString(v) == IF v[1] = "String" THEN v[2] ELSE v[2][1]

RightShape(key, v) ==
    CASE FieldType(key) = "String" -> Single(v)
      [] FieldType(key) = "Vec<String>" -> v[1] \in {"String", "Strings"}
      [] FieldType(key) = "u64" -> IsInteger(v) /\ v[2] >= 0
      [] FieldType(key) = "f64" -> v[1] = "Float"
      [] FieldType(key) = "MprisDuration" -> IsInteger(v) /\ v[2] >= 0 /\ v[2] <= I64_MAX
      [] FieldType(key) = "TrackID" ->
            /\ Single(v)
            /\ IsObjectPath(TheString(v))
            /\ (starts_with(TheString(v), ReservedPrefix) => TheString(v) = NO_TRACK)

FieldOf(key, v) ==
    CASE FieldType(key) = "String" -> TheString(v)
      [] FieldType(key) = "Vec<String>" -> IF v[1] = "String" THEN <<v[2]>> ELSE v[2]
      [] FieldType(key) = "u64" -> v[2]
      [] FieldType(key) = "f64" -> v[2]
      [] FieldType(key) = "MprisDuration" -> MprisDuration(v[2])
      [] FieldType(key) = "TrackID" -> TrackID(TheString(v))

Present(raw) == {k \in AllKeys : raw[k] # None}

AllRightShape(raw) == \A k \in Present(raw) \cap WellKnown : RightShape(k, Unwrap(raw[k]))

MetadataOp(fn) == kind = "Metadata" /\ IsSome(op) /\ Op.fn = fn

\* C22: strict construction of an empty map gives the empty Metadata; of a
\* map that is not empty and has no "mpris:trackid" fails, whatever the
\* shapes; of a map with a well-known key of the wrong shape fails; of any
\* other map succeeds.
C22_StrictConstruction ==
    MetadataOp("try_from") =>
        LET raw == Op.input
        IN /\ Present(raw) = {} => Op.result = Ok(Metadata_new)
           /\ (Present(raw) # {} /\ "mpris:trackid" \notin Present(raw)) => IsErr(Op.result)
           /\ ~AllRightShape(raw) => IsErr(Op.result)
           /\ (AllRightShape(raw) /\ "mpris:trackid" \in Present(raw)) => IsOk(Op.result)

\* A map of well-shaped fields without "mpris:trackid" was refused.
C22_Witness ==
    /\ MetadataOp("try_from")
    /\ Cardinality(Present(Op.input) \cap WellKnown) >= 2
    /\ "mpris:trackid" \notin Present(Op.input)
    /\ AllRightShape(Op.input)
    /\ IsErr(Op.result)

\* C23 as stated: a Metadata that is empty or has a track id, turned into a
\* raw map and strictly parsed, gives Ok of a Metadata equal to it.
C23_RoundTrip ==
    MetadataOp("back_and_forth") =>
        ((Metadata_is_empty(Op.input) \/ IsSome(Op.input.fields["mpris:trackid"])) =>
            (IsOk(Op.result) /\ Metadata_eq(Op.result[2], Op.input)))

NoNaN(m) ==
    /\ m.fields["xesam:autoRating"] # Some(NaN)
    /\ \A k \in AllKeys : m.others[k] # Some(MVFloat(NaN))

\* C23 amended: when moreover others holds no well-known key, the result is
\* Ok of the very same Metadata, which compares equal to it unless a float
\* in it is NaN.
C23_RoundTripOfParsedMetadata ==
    MetadataOp("back_and_forth") =>
        ((/\ Metadata_is_empty(Op.input) \/ IsSome(Op.input.fields["mpris:trackid"])
          /\ Present(Op.input.others) \cap WellKnown = {}) =>
            /\ Op.result = Ok(Op.input)
            /\ NoNaN(Op.input) => Metadata_eq(Op.result[2], Op.input))

\* A Metadata with a track id, other fields and an unrecognized key came
\* back.
C23_Witness ==
    /\ MetadataOp("back_and_forth")
    /\ \A k \in WellKnown : IsSome(Op.input.fields[k])
    /\ Op.input.fields["xesam:audioBPM"] = Some(U64_MAX)
    /\ Present(Op.input.others) = {"other"}
    /\ NoNaN(Op.input)
    /\ IsOk(Op.result) /\ Metadata_eq(Op.result[2], Op.input)

\* C24: lossy construction gives a Metadata for every map: a well-known key
\* of the right shape is in its field, one of the wrong shape is in no field
\* and not in others, an unrecognized key is in others as it was, and no
\* well-known key is; where strict construction succeeds it gives the same
\* Metadata.
C24_LossyConstruction ==
    MetadataOp("from_raw_lossy") =>
        LET raw == Op.input
            m == Op.result
        IN /\ \A k \in WellKnown :
                 /\ m.fields[k] = IF raw[k] # None /\ RightShape(k, Unwrap(raw[k]))
                                  THEN Some(FieldOf(k, Unwrap(raw[k])))
                                  ELSE None
                 /\ m.others[k] = None
           /\ \A k \in AllKeys \ WellKnown : m.others[k] = raw[k]
           /\ IsOk(Metadata_try_from(raw)) => Metadata_try_from(raw) = Ok(m)

\* A map with a track id, a field of the wrong shape and an unrecognized key
\* was read.
C24_Witness ==
    /\ MetadataOp("from_raw_lossy")
    /\ Present(Op.input) = {"mpris:trackid", "xesam:title", "other"}
    /\ RightShape("mpris:trackid", Unwrap(Op.input["mpris:trackid"]))
    /\ ~RightShape("xesam:title", Unwrap(Op.input["xesam:title"]))
    /\ IsSome(Op.result.fields["mpris:trackid"])
    /\ Op.result.fields["xesam:title"] = None
    /\ Op.result.others = [EmptyRaw EXCEPT !["other"] = Op.input["other"]]

\* ------------------------------------------------------- one cycle on its own
CycleRan == kind \in {"PlayerEvents::read_events", "PlayerWatcher::read_events"} /\ IsSome(op)

\* The events the cycle appended to the buffer.
NewEvents == SubSeq(buffer, Len(Op.before.buffer) + 1, Len(buffer))

Positions_of(batch, k) == {i \in 1..Len(batch) : Kind(batch[i]) = k}

\* The batch up to and without its first PlayerQuit.
BeforeQuit(batch) ==
    IF Positions_of(batch, "PlayerQuit") = {} THEN batch
    ELSE SubSeq(batch, 1,
                (CHOOSE i \in Positions_of(batch, "PlayerQuit") :
                    \A j \in Positions_of(batch, "PlayerQuit") : i <= j) - 1)

HasQuit(batch) == Positions_of(batch, "PlayerQuit") # {}

\* The loop reaches the first PlayerQuit unless the query of a
\* PlayerPropertiesChanged before it failed.
QuitReached ==
    /\ HasQuit(Op.batch)
    /\ Positions_of(BeforeQuit(Op.batch), "PlayerPropertiesChanged") # {} => IsOk(Op.from_player)

\* A Progress was fetched: a PlayerPropertiesChanged was reached and its
\* query answered.
Fetched ==
    /\ Positions_of(BeforeQuit(Op.batch), "PlayerPropertiesChanged") # {}
    /\ IsOk(Op.from_player)

\* What read_events of the iterator at hand gives on another batch.
ReadEvents(batch) ==
    IF kind = "PlayerEvents::read_events"
    THEN PlayerEvents_read_events(Op.before, batch, Op.from_player, Op.get_track_list)
    ELSE PlayerWatcher_read_events(Op.before, batch, Op.from_player, Op.get_track_list)

\* C27: when the loop reaches a PlayerQuit, the cycle ends as it would on the
\* batch cut behind that PlayerQuit: PlayerShutDown is the last event
\* appended, at most one event per notification before the quit comes before
\* it, the mirror is the one those notifications left, last_progress is not
\* replaced, the track list is not asked for, and read_events returns Ok.
C27_QuitIsFinal ==
    (CycleRan /\ QuitReached) =>
        LET cut == Append(BeforeQuit(Op.batch), NPlayerQuit)
        IN /\ Op.quit /\ Op.result = <<"Ok">>
           /\ NewEvents # <<>> /\ NewEvents[Len(NewEvents)] = PlayerShutDown
           /\ Len(NewEvents) <= Len(cut)
           /\ \A i \in 1..(Len(NewEvents) - 1) : Kind(NewEvents[i]) \notin DiffKinds
           /\ ReadEvents(cut).self.buffer = buffer
           /\ ReadEvents(cut).self.track_list = track_list
           /\ ReadEvents(BeforeQuit(Op.batch)).progress_queries = Op.progress_queries
           /\ last_progress = Op.before.last_progress
           /\ Op.track_list_queries = 0

\* A changed Progress was fetched, then the quit was reached, with a
\* notification behind it in the batch.
C27_Witness ==
    /\ CycleRan
    /\ Len(Op.batch) = 3
    /\ Op.batch[1] = NPlayerPropertiesChanged
    /\ Op.batch[2] = NPlayerQuit
    /\ Op.batch[3] = NTrackRemoved("A")
    /\ IsOk(Op.from_player) /\ Some(Value(Op.from_player)) # Op.before.last_progress
    /\ IsSome(track_list) /\ track_list = Op.before.track_list
    /\ NewEvents = <<PlayerShutDown>>

\* C28 as stated: after a cycle that fetched a Progress, last_progress is the
\* fetched one.
C28_RetainedIsFetched ==
    (CycleRan /\ Fetched) => last_progress = Some(Value(Op.from_player))

\* C28 amended: after a cycle that fetched a Progress and did not reach a
\* PlayerQuit, last_progress is the fetched one, changed or not and whether
\* or not the track list query failed afterwards; and a cycle that fetches
\* the Progress it retained appends no event of the Progress diff.
C28_RetainedIsFetchedUnlessQuit ==
    (CycleRan /\ Fetched /\ ~HasQuit(Op.batch)) =>
        /\ last_progress = Some(Value(Op.from_player))
        /\ Some(Value(Op.from_player)) = Op.before.last_progress =>
              \A i \in 1..Len(NewEvents) : Kind(NewEvents[i]) \notin DiffKinds

\* The fetched volume was less than EPSILON away from the retained one: no
\* event, and it is retained.
C28_Witness ==
    /\ CycleRan /\ Fetched /\ ~HasQuit(Op.batch)
    /\ Unwrap(Op.before.last_progress).current_volume = 0
    /\ Value(Op.from_player).current_volume = 1
    /\ NewEvents = <<>>
    /\ Unwrap(last_progress).current_volume = 1

\* C29: a cycle asks for a Progress at most once, and not at all when no
\* PlayerPropertiesChanged is reached; it asks for the track list at most
\* once, and does so exactly when it got to the end without a quit or a
\* failed Progress query, the mirror is present, and a
\* TrackListPropertiesChanged or a change of shuffle asked for it.
C29_Coalescing ==
    CycleRan =>
        LET reached == BeforeQuit(Op.batch)
            asked == Positions_of(reached, "PlayerPropertiesChanged") # {}
            shuffled == /\ asked /\ IsOk(Op.from_player)
                        /\ Value(Op.from_player).shuffle # Unwrap(Op.before.last_progress).shuffle
            atEnd == ~HasQuit(Op.batch) /\ (asked => IsOk(Op.from_player))
        IN /\ Op.progress_queries = IF asked THEN 1 ELSE 0
           /\ Op.track_list_queries =
                 IF /\ atEnd
                    /\ IsSome(track_list)
                    /\ Positions_of(Op.batch, "TrackListPropertiesChanged") # {} \/ shuffled
                 THEN 1 ELSE 0

\* Two PlayerPropertiesChanged, a TrackListPropertiesChanged and a change of
\* shuffle in one cycle: one query each.
C29_Witness ==
    /\ CycleRan
    /\ Op.batch = <<NPlayerPropertiesChanged, NTrackListPropertiesChanged,
                    NPlayerPropertiesChanged>>
    /\ IsOk(Op.from_player)
    /\ Value(Op.from_player).shuffle # Unwrap(Op.before.last_progress).shuffle
    /\ Op.progress_queries = 1
    /\ Op.track_list_queries = 1

IsSeeked(e) == Kind(e) = "Seeked"

\* C30 as stated: the Seeked notifications of the batch before any
\* PlayerQuit give the Seeked events of the cycle, one each, in order, with
\* the same offsets; a batch of Seeked notifications alone leaves
\* last_progress and the mirror as they were and asks nothing.
C30_SeekPassThrough ==
    CycleRan =>
        /\ SelectSeq(NewEvents, IsSeeked) = SelectSeq(BeforeQuit(Op.batch), IsSeeked)
        /\ (Op.batch # <<>> /\ \A i \in 1..Len(Op.batch) : IsSeeked(Op.batch[i])) =>
              /\ NewEvents = Op.batch
              /\ last_progress = Op.before.last_progress
              /\ track_list = Op.before.track_list
              /\ Op.progress_queries = 0 /\ Op.track_list_queries = 0

\* ------------------------------------------------------- MprisDuration, totality
\* C40: each of d + r, d - r, d * r and d / r, for every held duration d and
\* every u64 r (0 included), gives a duration instead of aborting.
C40_ArithmeticTotal ==
    (kind = "MprisDuration" /\ IsSome(op) /\ Op.fn \in {"add", "sub", "mul", "div"}) =>
        IsSome(Op.held)

\* ------------------------------------------------------- the arms and the absent mirror
\* The arm of notification kind k ran last, with or without a mirror.
OpArm(k) == kind = "TrackList" /\ IsSome(op) /\ Kind(Op.note) = k

\* C31: a TrackAdded notification whose metadata carries a track id pushes
\* TrackAdded(id), and nothing else, and the mirror, when there is one, gains
\* the id and its metadata; without a mirror the event is pushed all the same
\* and the mirror stays absent; metadata without a track id changes neither
\* the mirror nor the buffer.
C31_TrackAddedNeedsId ==
    OpArm("TrackAdded") =>
        LET metadata == Op.note[3]
        IN IF IsSome(metadata.track_id)
           THEN LET id == Unwrap(metadata.track_id)
                IN /\ buffer = <<TrackAdded(id)>>
                   /\ IsSome(track_list) = IsSome(Op.before)
                   /\ IsSome(Op.before) =>
                         /\ Len(MirrorAfter.ids) = Len(MirrorBefore.ids) + 1
                         /\ Contains(MirrorAfter.ids, id)
                         /\ MirrorAfter.metadata_cache[id] = Some(metadata)
           ELSE buffer = <<>> /\ track_list = Op.before

\* A track with an id was added while there was no mirror.
C31_Witness ==
    /\ OpArm("TrackAdded")
    /\ Op.before = None
    /\ IsSome(Op.note[3].track_id)
    /\ buffer = <<TrackAdded(Unwrap(Op.note[3].track_id))>>
    /\ track_list = None

\* C32: a TrackMetadataChanged notification pushes
\* TrackMetadataChanged{old_id, new_id} exactly when there is a mirror and it
\* held old_id; new_id is the id found afterwards where old_id stood; without
\* a mirror, or with a mirror that does not hold old_id, nothing is pushed
\* and the mirror is as it was.
C32_TrackMetadataChangedIfHeld ==
    OpArm("TrackMetadataChanged") =>
        LET old_id == Op.note[2]
        IN IF IsSome(Op.before) /\ Contains(Unwrap(Op.before).ids, old_id)
           THEN /\ IsSome(track_list)
                /\ Len(MirrorAfter.ids) = Len(MirrorBefore.ids)
                /\ buffer = <<TrackMetadataChanged(
                                 old_id, MirrorAfter.ids[IndexOf(MirrorBefore.ids, old_id)])>>
           ELSE buffer = <<>> /\ track_list = Op.before

\* The entry changed its id: the event carries both.
C32_Witness ==
    /\ OpArm("TrackMetadataChanged")
    /\ IsSome(Op.before)
    /\ Contains(MirrorBefore.ids, "A") /\ ~Contains(MirrorBefore.ids, "B")
    /\ buffer = <<TrackMetadataChanged("A", "B")>>
    /\ Contains(MirrorAfter.ids, "B") /\ ~Contains(MirrorAfter.ids, "A")

\* ------------------------------------------------------- TrackRemoved in a cycle
IsTrackRemoved(e) == Kind(e) = "TrackRemoved"

\* C33: the TrackRemoved notifications of the batch before any PlayerQuit
\* give the TrackRemoved events of the cycle, one each, in order and with the
\* same ids, with or without a mirror and whether or not the mirror holds the
\* id; a mirror that is absent stays absent, and a batch of TrackRemoved
\* notifications alone raises no error.
C33_TrackRemovedAlways ==
    CycleRan =>
        /\ SelectSeq(NewEvents, IsTrackRemoved) = SelectSeq(BeforeQuit(Op.batch), IsTrackRemoved)
        /\ (Op.batch # <<>> /\ \A i \in 1..Len(Op.batch) : IsTrackRemoved(Op.batch[i])) =>
              /\ NewEvents = Op.batch
              /\ Op.result = <<"Ok">>
              /\ IsSome(track_list) = IsSome(Op.before.track_list)

\* ------------------------------------------------------- the absent mirror
\* PlayerEvents::new found no track list (and the player never gains one).
NoTrackListSupport == kind = "PlayerEvents" /\ tracks = None

\* C34: PlayerEvents built on a player without a track list has no mirror
\* after any number of cycles, whatever TrackListPropertiesChanged
\* notifications and shuffle changes they saw; no cycle asks for the track
\* list, and a cycle fails only when its Progress query failed.
C34_AbsentMirrorStaysAbsent ==
    NoTrackListSupport =>
        /\ track_list = None
        /\ IsSome(cycle) =>
              /\ Cyc.mirror_before = None /\ Cyc.mirror_after = None
              /\ Cyc.track_list_queries = 0
              /\ TrackListReplaced \in {Cyc.events[i] : i \in 1..Len(Cyc.events)} =>
                    \E i \in 1..Len(Cyc.batch) : Kind(Cyc.batch[i]) = "TrackListReplaced"
              /\ Cyc.result # <<"Ok">> => (Cyc.progress_queries = 1 /\ Cyc.fetched = None)

\* The second cycle in a row without a mirror: the first saw shuffle change,
\* this one a TrackListPropertiesChanged, and neither failed.
C34_Witness ==
    /\ NoTrackListSupport
    /\ IsSome(cycle) /\ Cyc.n = 2 /\ Cyc.clean
    /\ Cyc.batch = <<NTrackListPropertiesChanged>>
    /\ \E i \in 1..Len(hist) : Kind(hist[i]) = "ShuffleToggled"
    /\ track_list = None

\* ------------------------------------------------------- events buffered before an error
\* The last cycle pushed events and then returned an error.
ErrCycleWithEvents == IsSome(cycle) /\ Cyc.result # <<"Ok">> /\ Cyc.events # <<>>

\* C35: a cycle starts with an empty buffer; when it pushed events and then
\* failed, next() returns the error, and from then on the events yielded
\* since, followed by the buffer, are the events the cycle pushed, in their
\* order: the following calls yield them one by one, and no cycle runs until
\* the last one is out.
C35_BufferedEventsSurviveError ==
    /\ IsSome(cycle) => Cyc.buffered = 0
    /\ ErrCycleWithEvents =>
          /\ Len(hist) >= Cyc.at
          /\ IF Len(hist) - Cyc.at < Len(Cyc.events)
             THEN /\ SubSeq(hist, Cyc.at + 1, Len(hist)) \o buffer = Cyc.events
                  /\ pc = "idle"
                  /\ ret = Some(IF Len(hist) = Cyc.at THEN Cyc.result
                                ELSE RetOk(hist[Len(hist)]))
             ELSE SubSeq(hist, Cyc.at + 1, Cyc.at + Len(Cyc.events)) = Cyc.events

\* PlayerEvents returned the error of a failed Progress query, and the event
\* pushed before the failure was yielded by the call after it.
C35_Witness ==
    /\ kind = "PlayerEvents"
    /\ ErrCycleWithEvents
    /\ Kind(Cyc.batch[Len(Cyc.batch)]) = "PlayerPropertiesChanged"
    /\ buffer = <<>>
    /\ Len(hist) = Cyc.at + Len(Cyc.events)
    /\ ret = Some(RetOk(Cyc.events[Len(Cyc.events)]))

\* ------------------------------------------------------- the watcher and NoPlayer
\* C36: PlayerWatcher::next never hands over Err(NoPlayer): it is inside
\* read_events (blocked in its wait) only with a player tracked, and no
\* cycle ended in either NoPlayer branch.
C36_NeverNoPlayer ==
    kind = "PlayerWatcher" =>
        /\ ret # Some(RetErr(NoPlayer))
        /\ pc = "wait" => IsSome(player)
        /\ IsSome(cycle) => Cyc.result # RetErr(NoPlayer)

\* The watcher attached to a player inside next(), ran a cycle on it and is
\* back in the wait of read_events.
C36_Witness ==
    /\ kind = "PlayerWatcher"
    /\ pc = "wait" /\ IsSome(player)
    /\ IsSome(cycle) /\ Cyc.result = <<"Ok">>
    /\ \E i \in 1..Len(hist) : hist[i] = PlayerStart /\ i <= Cyc.at

\* ------------------------------------------------------- PlayerStart
\* The step attaches the watcher to a player: it tracks one it did not track
\* before.
Attaches == IsSome(player') /\ player' # player

\* C37: a step of PlayerWatcher::next that attaches to a player starts and
\* ends with an empty buffer and returns PlayerStart, which so comes right
\* behind what was yielded before and ahead of every event of the new
\* player; and PlayerStart is yielded by such steps only, so a player found
\* by the constructor gives none.
C37_PlayerStartOnAttach ==
    [][kind = "PlayerWatcher" =>
          /\ Attaches =>
                /\ buffer = <<>> /\ buffer' = <<>>
                /\ pc' = "idle"
                /\ ret' = Some(RetOk(PlayerStart))
                /\ hist' = Append(hist, PlayerStart)
          /\ (Len(hist') > Len(hist) /\ hist'[Len(hist')] = PlayerStart) => Attaches]_vars

\* The watcher was built on a running player, yielded its PlayerShutDown,
\* and has just attached to the next one.
C37_Witness ==
    /\ kind = "PlayerWatcher"
    /\ player = Some(2)
    /\ hist = <<PlayerShutDown, PlayerStart>>
    /\ ret = Some(RetOk(PlayerStart))
    /\ buffer = <<>>

\* ------------------------------------------------------- TrackListReplaced in a cycle
Replaced(seq) == Len(OfKinds(seq, {"TrackListReplaced"}))

\* C38 as stated: a cycle whose batch holds at most one TrackListReplaced
\* notification appends at most one TrackListReplaced event.
C38_ReplacedOnce ==
    (CycleRan /\ Replaced(Op.batch) <= 1) => Replaced(NewEvents) <= 1

\* C38 amended: a cycle appends at most one TrackListReplaced event for each
\* TrackListReplaced notification before any PlayerQuit, and at most one
\* more, which is the one of the reconciliation: it is there exactly when the
\* cycle asked for the track list and got one.  A cycle that does not ask
\* appends no more events than it drained notifications.
C38_ReplacedPerNotificationAndReload ==
    CycleRan =>
        LET n == Replaced(BeforeQuit(Op.batch))
            e == Replaced(NewEvents)
            reloaded == /\ Op.track_list_queries = 1
                        /\ IsOk(Op.get_track_list) /\ IsSome(Value(Op.get_track_list))
        IN /\ e <= n + 1
           /\ reloaded => (e = n + 1 /\ NewEvents[Len(NewEvents)] = TrackListReplaced)
           /\ ~reloaded => e <= n
           /\ (Positions_of(BeforeQuit(Op.batch), "PlayerPropertiesChanged") # {} =>
                  IsOk(Op.from_player)) => e >= n

\* One TrackListReplaced notification and a TrackListPropertiesChanged in a
\* batch, with a mirror: two TrackListReplaced events.
C38_Witness ==
    /\ CycleRan
    /\ Op.batch = <<NTrackListReplaced(<<"B">>), NTrackListPropertiesChanged>>
    /\ IsSome(Op.before.track_list)
    /\ NewEvents = <<TrackListReplaced, TrackListReplaced>>
    /\ track_list = Some(TrackListFrom(<<"A", "B">>))

\* ------------------------------------------------------- next() returns
\* The step is a derivation cycle.
CycleStep == pc = "wait" /\ cycle' # cycle

\* C39: a cycle of PlayerEvents that derives no event and no error leaves
\* next() in the wait again, with nothing handed over; next() returns None
\* only when the player does not run; and, the wait ending once a
\* notification is queued and the player stopping in the end, every call of
\* next() that blocks returns.
C39_NextReturns ==
    /\ [][(CycleStep /\ Unwrap(cycle').events = <<>> /\ Unwrap(cycle').result = <<"Ok">>) =>
             (pc' = "wait" /\ ret' = ret /\ hist' = hist /\ alive')]_vars
    /\ []((pc = "idle" /\ ret = Some(RetNone)) => ~alive)
    /\ (pc = "wait") ~> (pc = "idle")

\* Two cycles in one call: the first derived nothing and next() waited on,
\* the second derived the event the call returned.
C39_Witness ==
    /\ kind = "PlayerEvents"
    /\ IsSome(cycle) /\ Cyc.n = 2 /\ Cyc.clean
    /\ Cyc.at = 0
    /\ Cyc.events # <<>>
    /\ pc = "idle"
    /\ hist = <<Cyc.events[1]>>

====
